---- MODULE Spec2Model ----
(***************************************************************************)
(* genSTARK: proof serializer/parser (bin/lib/Serializer.js), proof size   *)
(* calculator (lib/utils/sizeof.ts) and composition polynomial             *)
(* (CompositionPolynomial.js), with the leaf encoding of the evaluation    *)
(* tree (Serializer.mergeValues / parseValues).                            *)
(*                                                                         *)
(* Buffers are sequences of bytes (0..255).  A Node Buffer obtained from   *)
(* Buffer.allocUnsafe holds arbitrary bytes until written; the arbitrary   *)
(* content is the byte `junk` (resp. `junk2` for a second allocation),     *)
(* chosen nondeterministically in the initial state.                       *)
(***************************************************************************)
EXTENDS Integers, Sequences, FiniteSets, TLC

VARIABLES
    pc,         \* position of the driver (the example programs' call order)
    cfg,        \* Serializer configuration (constructor arguments)
    proof,      \* the proof object handed to serializeProof / sizeOf
    junk,       \* content of uninitialised memory, first allocation
    junk2,      \* content of uninitialised memory, later allocations
    ser,        \* result of serializeProof(proof)
    ser2,       \* result of a second serializeProof(proof)
    wire,       \* the buffer handed to parseProof
    par,        \* result of parseProof(wire)
    reser,      \* result of serializeProof(parseProof(serializeProof(proof)))
    size,       \* result of sizeOf(proof) (sizeof.ts)
    air,        \* constraints, assertions, seed and context of a STARK
    cp,         \* CompositionPolynomial instance
    cp2,        \* a second CompositionPolynomial built from the same inputs
    evAll,      \* result of cp.evaluateAll(...)
    evAt,       \* result of the last cp.evaluateAt(...)
    again,      \* results of the calls repeated on cp after the first query
    trace,      \* register evaluations [pValues, sValues] and a position
    leaf,       \* result of mergeValues([pValues, sValues], position)
    leafValues  \* result of parseValues(leaf)

leafVars == <<trace, leaf, leafValues>>

vars == <<pc, cfg, proof, junk, junk2, ser, ser2, wire, par, reser,
          size, air, cp, cp2, evAll, evAt, again, leafVars>>

\* ------------------------------------------------------------------------
\* Bounds of the model
\* ------------------------------------------------------------------------
MaxFieldElementSize == 2
MaxHashDigestSize == 2
MaxValues == 2
MaxColumns == 2
MaxComponents == 1
MaxTraceDepth == 2
MaxTruncated == 96
MaxTrailing == 2

\* ------------------------------------------------------------------------
\* Program constants
\* ------------------------------------------------------------------------
MAX_ARRAY_LENGTH == 256
MAX_MATRIX_COLUMN_LENGTH == 127

\* the value of a result that has not been computed
None == [ok |-> FALSE, none |-> TRUE]

Min(a, b) == IF a <= b THEN a ELSE b
Max(a, b) == IF a >= b THEN a ELSE b

RECURSIVE Pow(_, _)
Pow(b, e) == IF e = 0 THEN 1 ELSE b * Pow(b, e - 1)

\* Folds over an array split the array in halves, which keeps the depth of
\* the evaluation logarithmic in the array length.
Front(s) == SubSeq(s, 1, Len(s) \div 2)
Back(s) == SubSeq(s, Len(s) \div 2 + 1, Len(s))

RECURSIVE Flatten(_)
\* concatenation of a sequence of buffers
Flatten(bufs) ==
    IF Len(bufs) = 0 THEN <<>>
    ELSE IF Len(bufs) = 1 THEN bufs[1]
    ELSE Flatten(Front(bufs)) \o Flatten(Back(bufs))

RECURSIVE SumSeq(_)
SumSeq(s) ==
    IF Len(s) = 0 THEN 0
    ELSE IF Len(s) = 1 THEN s[1]
    ELSE SumSeq(Front(s)) + SumSeq(Back(s))

\* sum of the .length of every entry of an array
SumLen(arr) == SumSeq([i \in 1..Len(arr) |-> Len(arr[i])])

\* ------------------------------------------------------------------------
\* Node Buffer primitives used by the serializer.
\* A writer is [out, cap, ok]: every write of the serializer starts at the
\* current offset and advances the offset by what it wrote, so the buffer is
\* always `out` (offset = Len(out)) followed by cap - Len(out) unwritten
\* bytes.  ok = FALSE: the call threw.  marks records the value of `offset`
\* at the statements that start a field of the wire format.
\* ------------------------------------------------------------------------
allocUnsafe(n) == [out |-> <<>>, cap |-> n, ok |-> TRUE, marks |-> <<>>]

\* the offset at which the next statement writes
Mark(w) == IF ~w.ok THEN w ELSE [w EXCEPT !.marks = Append(@, Len(w.out))]

\* the buffer as the caller sees it: written bytes, then uninitialised ones
bufferOf(w, j) == w.out \o [i \in 1..(w.cap - Len(w.out)) |-> j]

\* a writeUInt8 that stores the low-order byte of a value above 255
writeUInt8Wrapping(w, v) ==
    IF ~w.ok THEN w
    ELSE IF Len(w.out) + 1 > w.cap THEN [w EXCEPT !.ok = FALSE]
    ELSE [w EXCEPT !.out = Append(w.out, v % 256)]

\* buffer.writeUInt8(value, offset): throws RangeError unless value is in
\* 0..255 and the byte lies inside the buffer
writeUInt8(w, v) ==
    IF ~w.ok THEN w
    ELSE IF v \notin 0..255 \/ Len(w.out) + 1 > w.cap THEN [w EXCEPT !.ok = FALSE]
    ELSE [w EXCEPT !.out = Append(w.out, v)]

\* A JavaScript number n >= 0 that may exceed 31 bits is held as [hi, lo] with
\* n = hi * 65536 + lo and lo in 0..65535; it is a uint32 iff hi <= 65535.
U32(hi, lo) == [hi |-> hi, lo |-> lo]

\* buffer.writeUInt32LE(value, offset): throws RangeError unless value is in
\* 0..2^32-1 and the four bytes lie inside the buffer
writeUInt32LE(w, v) ==
    IF ~w.ok THEN w
    ELSE IF v.hi > 65535 \/ Len(w.out) + 4 > w.cap THEN [w EXCEPT !.ok = FALSE]
    ELSE [w EXCEPT !.out = w.out \o <<v.lo % 256, v.lo \div 256,
                                      v.hi % 256, v.hi \div 256>>]

\* offset += source.copy(buffer, offset): copies what fits, never throws
copyTo(w, src) ==
    IF ~w.ok THEN w
    ELSE [w EXCEPT !.out = w.out \o SubSeq(src, 1, Min(Len(src), w.cap - Len(w.out)))]

\* A read result is [ok, off, val]; ok = FALSE: the call threw.
Thrown == [ok |-> FALSE, off |-> 0, val |-> <<>>]

\* buffer.readUInt8(offset): throws RangeError outside the buffer
readUInt8(buf, off) ==
    IF off + 1 > Len(buf) THEN Thrown
    ELSE [ok |-> TRUE, off |-> off + 1, val |-> buf[off + 1]]

\* buffer.readUInt32LE(offset)
readUInt32LE(buf, off) ==
    IF off + 4 > Len(buf) THEN Thrown
    ELSE [ok |-> TRUE, off |-> off + 4,
          val |-> U32(buf[off + 3] + 256 * buf[off + 4],
                      buf[off + 1] + 256 * buf[off + 2])]

\* t = Buffer.allocUnsafe(n); offset += buffer.copy(t, 0, offset, offset + n):
\* throws when offset is beyond the end of the source, otherwise copies the
\* bytes that exist and leaves the rest of t uninitialised (j)
copyFrom(buf, off, n, j) ==
    IF off > Len(buf) THEN Thrown
    ELSE LET k == Min(n, Len(buf) - off)
         IN [ok |-> TRUE, off |-> off + k,
             val |-> SubSeq(buf, off + 1, off + k) \o [i \in 1..(n - k) |-> j]]

\* ------------------------------------------------------------------------
\* utils: array / matrix / Merkle-proof / bigint readers and writers of the
\* wire format.  A value that does not fit the buffer, or a read past the end
\* of the buffer, is an error.
\* ------------------------------------------------------------------------

\* an array is [1-byte count | elements]; a count of 256 is written as 0
writeBytes(w, bytes) ==
    IF ~w.ok THEN w
    ELSE IF Len(w.out) + Len(bytes) > w.cap THEN [w EXCEPT !.ok = FALSE]
    ELSE [w EXCEPT !.out = w.out \o bytes]

writeArray(w, array) ==
    writeBytes(writeUInt8(w, IF Len(array) = MAX_ARRAY_LENGTH THEN 0 ELSE Len(array)),
               Flatten(array))

\* a matrix is [1-byte column count | 1 byte per column: its length | elements]
writeMatrix(w, matrix) ==
    LET w1 == writeUInt8(w, Len(matrix))
        lens == [i \in 1..Len(matrix) |-> Len(matrix[i])]
        w2 == IF \E i \in 1..Len(lens) : lens[i] > 255
              THEN [w1 EXCEPT !.ok = FALSE]
              ELSE writeBytes(w1, lens)
    IN writeBytes(w2, Flatten([i \in 1..Len(matrix) |-> Flatten(matrix[i])]))

\* a batch Merkle proof is [values array | nodes matrix | 1-byte depth]
writeMerkleProof(w, mp) ==
    writeUInt8(writeMatrix(writeArray(w, mp.values), mp.nodes), mp.depth)

RECURSIVE toBytesLE(_, _)
\* the n low-order bytes of value, least significant first
toBytesLE(value, n) ==
    IF n = 0 THEN <<>> ELSE <<value % 256>> \o toBytesLE(value \div 256, n - 1)

RECURSIVE fromBytesLE(_)
fromBytesLE(bytes) ==
    IF bytes = <<>> THEN 0 ELSE Head(bytes) + 256 * fromBytesLE(Tail(bytes))

\* writeBigInt(value, buffer, offset, elementSize): one field element
writeBigInt(w, value, elementSize) ==
    IF value >= Pow(256, elementSize) THEN [w EXCEPT !.ok = FALSE]
    ELSE writeBytes(w, toBytesLE(value, elementSize))

\* readBigInt(buffer, offset, elementSize)
readBigInt(buf, off, elementSize) ==
    IF off + elementSize > Len(buf) THEN Thrown
    ELSE [ok |-> TRUE, off |-> off + elementSize,
          val |-> fromBytesLE(SubSeq(buf, off + 1, off + elementSize))]

\* count elements of elementSize bytes each, starting at off
readElements(buf, off, count, elementSize) ==
    IF off + count * elementSize > Len(buf) THEN Thrown
    ELSE [ok |-> TRUE, off |-> off + count * elementSize,
          val |-> [i \in 1..count |->
                     SubSeq(buf, off + (i - 1) * elementSize + 1, off + i * elementSize)]]

readArray(buf, off, elementSize) ==
    LET c == readUInt8(buf, off)
    IN IF ~c.ok THEN Thrown
       ELSE readElements(buf, c.off, IF c.val = 0 THEN MAX_ARRAY_LENGTH ELSE c.val,
                         elementSize)

readMatrix(buf, off, elementSize) ==
    LET c == readUInt8(buf, off)
    IN IF ~c.ok THEN Thrown
       ELSE IF c.off + c.val > Len(buf) THEN Thrown
       ELSE LET lens == SubSeq(buf, c.off + 1, c.off + c.val)
                start(i) == c.off + c.val + SumSeq(SubSeq(lens, 1, i - 1)) * elementSize
                total == SumSeq(lens) * elementSize
            IN IF c.off + c.val + total > Len(buf) THEN Thrown
               ELSE [ok |-> TRUE, off |-> c.off + c.val + total,
                     val |-> [i \in 1..c.val |->
                                readElements(buf, start(i), lens[i], elementSize).val]]

\* A parser's position is [ok, off, vals, offs]: the offset, the values read
\* so far and the offsets at which their reads started; ok = FALSE: a read
\* threw, which ends the parser.
Reader(off) == [ok |-> TRUE, off |-> off, vals |-> <<>>, offs |-> <<>>]

\* the offsets at which a read started the fields inside its value
FieldOffsets(r) == IF "offs" \in DOMAIN r THEN r.offs ELSE <<>>

\* the next statement of a parser: Read at the current offset
Push(rd, r) ==
    IF ~r.ok THEN [ok |-> FALSE, off |-> 0, vals |-> <<>>, offs |-> <<>>]
    ELSE [ok |-> TRUE, off |-> r.off, vals |-> Append(rd.vals, r.val),
          offs |-> Append(rd.offs, rd.off) \o FieldOffsets(r)]

Then(rd, Read(_, _)) == IF ~rd.ok THEN rd ELSE Push(rd, Read(rd.off, rd.vals))

\* the result of a parser whose last statement left it at rd
Return(rd, val) ==
    IF ~rd.ok THEN Thrown ELSE [ok |-> TRUE, off |-> rd.off, val |-> val]

\* the same, with the offsets at which the value's fields were read
ReturnAt(rd, val, offs) ==
    IF ~rd.ok THEN Thrown
    ELSE [ok |-> TRUE, off |-> rd.off, val |-> val, offs |-> offs]

merkleProofOf(rd) ==
    Return(rd, [values |-> rd.vals[1], nodes |-> rd.vals[2], depth |-> rd.vals[3]])

readMerkleProof(buf, off, leafSize, nodeSize) ==
    LET r1 == Then(Reader(off), LAMBDA o, vs : readArray(buf, o, leafSize))
        r2 == Then(r1, LAMBDA o, vs : readMatrix(buf, o, nodeSize))
        r3 == Then(r2, LAMBDA o, vs : readUInt8(buf, o))
    IN merkleProofOf(r3)

\* ------------------------------------------------------------------------
\* lib/utils/sizeof.ts
\* A size result is [ok, total, ...]; ok = FALSE: the function threw.
\* ------------------------------------------------------------------------
Threw == [ok |-> FALSE, total |-> 0]

sizeOfArray(array) ==
    IF Len(array) = 0 THEN Threw
    ELSE IF Len(array) > MAX_ARRAY_LENGTH THEN Threw
    ELSE [ok |-> TRUE, total |-> 1 + SumLen(array)]

sizeOfMatrix(matrix) ==
    IF Len(matrix) > MAX_ARRAY_LENGTH THEN Threw
    ELSE IF \E i \in 1..Len(matrix) : Len(matrix[i]) >= MAX_MATRIX_COLUMN_LENGTH
         THEN Threw
    ELSE [ok |-> TRUE,
          total |-> 1 + Len(matrix)
                    + SumSeq([i \in 1..Len(matrix) |-> SumLen(matrix[i])])]

sizeOfMerkleProof(mp) ==
    LET v == sizeOfArray(mp.values)
        n == sizeOfMatrix(mp.nodes)
    IN IF ~v.ok \/ ~n.ok THEN Threw
       ELSE [ok |-> TRUE, total |-> v.total + n.total + 1]

RECURSIVE sizeOfLevels(_, _)
\* the loop over proof.ldProof.components: one ldLevel per component
sizeOfLevels(components, hashDigestSize) ==
    IF components = <<>> THEN [ok |-> TRUE, levels |-> <<>>]
    ELSE IF Len(components) = 1
    THEN LET c == components[1]
             cs == sizeOfMerkleProof(c.columnProof)
             ps == sizeOfMerkleProof(c.polyProof)
         IN IF ~cs.ok \/ ~ps.ok THEN [ok |-> FALSE, levels |-> <<>>]
            ELSE [ok |-> TRUE,
                  levels |-> <<hashDigestSize + cs.total + ps.total>>]
    ELSE LET front == sizeOfLevels(Front(components), hashDigestSize)
             back == sizeOfLevels(Back(components), hashDigestSize)
         IN IF ~front.ok \/ ~back.ok THEN [ok |-> FALSE, levels |-> <<>>]
            ELSE [ok |-> TRUE, levels |-> front.levels \o back.levels]

\* sizeOf(proof, hashDigestSize) for the values-first proof object
sizeOf(p, hashDigestSize) ==
    LET evData == 1 + SumLen(p.values)
        evNodes == sizeOfMatrix(p.evProof.nodes)
        lcNodes == sizeOfMatrix(p.lcProof.nodes)
        lv == sizeOfLevels(p.ldProof.components, hashDigestSize)
        ldRemainder == sizeOfArray(p.ldProof.remainder)
    IN IF ~evNodes.ok \/ ~lcNodes.ok \/ ~lv.ok \/ ~ldRemainder.ok THEN Threw
       ELSE LET evProof == hashDigestSize + evNodes.total + 1
                lcProof == hashDigestSize + lcNodes.total + 1
                ldProof == 1 + SumSeq(lv.levels) + ldRemainder.total
            IN [ok |-> TRUE, evData |-> evData, evProof |-> evProof,
                lcProof |-> lcProof,
                ldProof |-> [levels |-> lv.levels \o <<ldRemainder.total>>,
                             total |-> ldProof],
                total |-> evData + evProof + lcProof + ldProof]

\* ------------------------------------------------------------------------
\* bin/lib/Serializer.js: roots-first proof object
\*   [evRoot, evProof, ldProof: [lcRoot, lcProof, components, remainder],
\*    traceShape]
\* ------------------------------------------------------------------------
getValueCount(c) == c.stateWidth + c.sRegisterCount + c.iRegisterCount

\* a parser that takes FRI leaves to be one field element wide
ldLeafSizeOneElement(c) == c.fieldElementSize

\* const ldLeafSize = this.fieldElementSize * 4
ldLeafSize(c) == c.fieldElementSize * 4

\* for remainder array length, zero means 256 (writer)
remainderLength(n) == IF n = 256 THEN 0 ELSE n

\* a parser that takes the length byte at face value
friRemainderLengthAsWritten(lengthByte) == lengthByte

\* buffer.readUInt8(offset) || MAX_ARRAY_LENGTH (parser)
friRemainderLength(lengthByte) ==
    IF lengthByte = 0 THEN MAX_ARRAY_LENGTH ELSE lengthByte

\* utils.sizeOf(proof, fieldElementSize, hashDigestSize) for this proof object:
\* the size of the wire format, with the array limits of sizeOfArray applied
\* to the remainder
sizeOfRootsFirst(p, fieldElementSize, hashDigestSize) ==
    LET evProof == sizeOfMerkleProof(p.evProof)
        lcProof == sizeOfMerkleProof(p.ldProof.lcProof)
        lv == sizeOfLevels(p.ldProof.components, hashDigestSize)
        n == Len(p.ldProof.remainder)
    IN IF ~evProof.ok \/ ~lcProof.ok \/ ~lv.ok THEN Threw
       ELSE IF n = 0 \/ n > MAX_ARRAY_LENGTH THEN Threw
       ELSE [ok |-> TRUE,
             total |-> hashDigestSize + evProof.total
                       + hashDigestSize + lcProof.total
                       + 1 + SumSeq(lv.levels)
                       + 1 + n * fieldElementSize
                       + 1 + 4 * Len(p.traceShape)]

RECURSIVE writeComponentsProofsFirst(_, _)
\* a serializer that writes a component's two proofs before its columnRoot
writeComponentsProofsFirst(w, components) ==
    IF components = <<>> THEN w
    ELSE IF Len(components) = 1
    THEN LET c == components[1]
         IN copyTo(Mark(writeMerkleProof(
                            Mark(writeMerkleProof(Mark(w), c.columnProof)),
                            c.polyProof)),
                   c.columnRoot)
    ELSE LET w1 == writeComponentsProofsFirst(w, Front(components))
         IN IF ~w1.ok THEN w1
            ELSE writeComponentsProofsFirst(w1, Back(components))

RECURSIVE writeComponents(_, _)
\* for (let component of proof.ldProof.components) { ... }
writeComponents(w, components) ==
    IF components = <<>> THEN w
    ELSE IF Len(components) = 1
    THEN LET c == components[1]
         IN writeMerkleProof(
                Mark(writeMerkleProof(Mark(copyTo(Mark(w), c.columnRoot)),
                                      c.columnProof)),
                c.polyProof)
    ELSE LET w1 == writeComponents(w, Front(components))
         IN IF ~w1.ok THEN w1 ELSE writeComponents(w1, Back(components))

RECURSIVE writeRemainder(_, _, _)
\* for (let value of proof.ldProof.remainder) { writeBigInt(...) }
writeRemainder(w, remainder, elementSize) ==
    IF Len(remainder) = 0 THEN w
    ELSE IF Len(remainder) = 1 THEN writeBigInt(w, remainder[1], elementSize)
    ELSE LET w1 == writeRemainder(w, Front(remainder), elementSize)
         IN IF ~w1.ok THEN w1 ELSE writeRemainder(w1, Back(remainder), elementSize)

\* a serializer that leaves the trace-shape counts unwritten
writeTraceShapeSkipped(w, shape) == w

RECURSIVE writeTraceShape(_, _)
\* for (let level of proof.traceShape) { buffer.writeUInt32LE(level, offset) }
writeTraceShape(w, shape) ==
    IF shape = <<>> THEN w
    ELSE IF Len(shape) = 1 THEN writeUInt32LE(w, shape[1])
    ELSE LET w1 == writeTraceShape(w, Front(shape))
         IN IF ~w1.ok THEN w1 ELSE writeTraceShape(w1, Back(shape))

\* the writer after the last write of serializeProof
serializeWriter(c, p, total) ==
    LET w1 == copyTo(Mark(allocUnsafe(total)), p.evRoot)
        w2 == writeMerkleProof(Mark(w1), p.evProof)
        w3 == copyTo(Mark(w2), p.ldProof.lcRoot)
        w4 == writeMerkleProof(Mark(w3), p.ldProof.lcProof)
        w5 == writeUInt8(Mark(w4), Len(p.ldProof.components))
        w6 == writeComponents(Mark(w5), p.ldProof.components)
        w7 == writeUInt8(Mark(w6), remainderLength(Len(p.ldProof.remainder)))
        w8 == writeRemainder(Mark(w7), p.ldProof.remainder, c.fieldElementSize)
        w9 == writeUInt8(Mark(w8), Len(p.traceShape))
    IN writeTraceShape(Mark(w9), p.traceShape)

\* return buffer: [ok, buffer, offset, marks], unless a write threw
returnBuffer(w, j) ==
    IF ~w.ok THEN [ok |-> FALSE, buffer |-> <<>>, offset |-> 0]
    ELSE [ok |-> TRUE, buffer |-> bufferOf(w, j), offset |-> Len(w.out),
          marks |-> w.marks]

\* serializeProof(proof): [ok, buffer, offset]; j is the content of the
\* freshly allocated buffer
serializeProof(c, p, j) ==
    LET sz == sizeOfRootsFirst(p, c.fieldElementSize, c.hashDigestSize)
    IN IF ~sz.ok THEN [ok |-> FALSE, buffer |-> <<>>, offset |-> 0]
       ELSE returnBuffer(serializeWriter(c, p, sz.total), j)

\* one component, with the offsets of its columnRoot, columnProof and
\* polyProof
componentOf(rd) ==
    ReturnAt(rd, <<[columnRoot |-> rd.vals[1], columnProof |-> rd.vals[2],
                    polyProof |-> rd.vals[3]]>>,
             rd.offs)

\* the body of the loop over the components
readComponent(buf, off, c, j) ==
    LET r1 == Then(Reader(off),
                   LAMBDA o, vs : copyFrom(buf, o, c.hashDigestSize, j))
        r2 == Then(r1, LAMBDA o, vs :
                   readMerkleProof(buf, o, ldLeafSize(c), c.hashDigestSize))
        r3 == Then(r2, LAMBDA o, vs :
                   readMerkleProof(buf, o, ldLeafSize(c), c.hashDigestSize))
    IN componentOf(r3)

RECURSIVE readComponents(_, _, _, _, _)
\* for (let i = 0; i < componentCount; i++) { ... }
readComponents(buf, off, count, c, j) ==
    IF count = 0 THEN [ok |-> TRUE, off |-> off, val |-> <<>>]
    ELSE IF count = 1 THEN readComponent(buf, off, c, j)
    ELSE LET front == readComponents(buf, off, count \div 2, c, j)
         IN IF ~front.ok THEN Thrown
            ELSE LET back == readComponents(buf, front.off, count - count \div 2,
                                            c, j)
                 IN IF ~back.ok THEN Thrown
                    ELSE [ok |-> TRUE, off |-> back.off,
                          val |-> front.val \o back.val,
                          offs |-> front.offs \o back.offs]

RECURSIVE readRemainder(_, _, _, _)
\* for (let i = 0; i < friRemainderLength; i++, offset += fieldElementSize)
readRemainder(buf, off, count, elementSize) ==
    IF count = 0 THEN [ok |-> TRUE, off |-> off, val |-> <<>>]
    ELSE IF count = 1
    THEN LET v == readBigInt(buf, off, elementSize)
         IN IF ~v.ok THEN Thrown
            ELSE [ok |-> TRUE, off |-> off + elementSize, val |-> <<v.val>>]
    ELSE LET front == readRemainder(buf, off, count \div 2, elementSize)
         IN IF ~front.ok THEN Thrown
            ELSE LET back == readRemainder(buf, front.off, count - count \div 2,
                                           elementSize)
                 IN IF ~back.ok THEN Thrown
                    ELSE [ok |-> TRUE, off |-> back.off,
                          val |-> front.val \o back.val]

\* a parser whose trace-shape loop stops at the end of the buffer instead of
\* reading past it
readTraceShapeClamped(buf, off, count) ==
    LET n == Min(count, (Len(buf) - off) \div 4)
    IN [ok |-> TRUE, off |-> off + 4 * n,
        val |-> [i \in 1..n |-> readUInt32LE(buf, off + 4 * (i - 1)).val]]

RECURSIVE readTraceShape(_, _, _)
\* for (let i = 0; i < traceDepth; i++) { buffer.readUInt32LE(offset) }
readTraceShape(buf, off, count) ==
    IF count = 0 THEN [ok |-> TRUE, off |-> off, val |-> <<>>]
    ELSE IF count = 1
    THEN LET v == readUInt32LE(buf, off)
         IN IF ~v.ok THEN Thrown
            ELSE [ok |-> TRUE, off |-> v.off, val |-> <<v.val>>]
    ELSE LET front == readTraceShape(buf, off, count \div 2)
         IN IF ~front.ok THEN Thrown
            ELSE LET back == readTraceShape(buf, front.off, count - count \div 2)
                 IN IF ~back.ok THEN Thrown
                    ELSE [ok |-> TRUE, off |-> back.off,
                          val |-> front.val \o back.val]

\* the proof object parseProof returns
proofOf(rd) ==
    ReturnAt(rd, [evRoot |-> rd.vals[1],
                  evProof |-> rd.vals[2],
                  ldProof |-> [lcRoot |-> rd.vals[3],
                               lcProof |-> rd.vals[4],
                               components |-> rd.vals[6],
                               remainder |-> rd.vals[8]],
                  traceShape |-> rd.vals[10]],
             rd.offs)

\* parseProof(buffer): [ok, off, val]; val is the proof object
parseProof(c, buf, j) ==
    LET evLeafSize == getValueCount(c) * c.fieldElementSize
        r1 == Then(Reader(0), LAMBDA o, vs : copyFrom(buf, o, c.hashDigestSize, j))
        r2 == Then(r1, LAMBDA o, vs :
                   readMerkleProof(buf, o, evLeafSize, c.hashDigestSize))
        r3 == Then(r2, LAMBDA o, vs : copyFrom(buf, o, c.hashDigestSize, j))
        r4 == Then(r3, LAMBDA o, vs :
                   readMerkleProof(buf, o, ldLeafSize(c), c.hashDigestSize))
        \* componentCount
        r5 == Then(r4, LAMBDA o, vs : readUInt8(buf, o))
        r6 == Then(r5, LAMBDA o, vs : readComponents(buf, o, vs[5], c, j))
        \* the remainder's length byte
        r7 == Then(r6, LAMBDA o, vs : readUInt8(buf, o))
        r8 == Then(r7, LAMBDA o, vs :
                   readRemainder(buf, o, friRemainderLength(vs[7]),
                                 c.fieldElementSize))
        \* traceDepth
        r9 == Then(r8, LAMBDA o, vs : readUInt8(buf, o))
        r10 == Then(r9, LAMBDA o, vs : readTraceShape(buf, o, vs[9]))
    IN proofOf(r10)

\* ------------------------------------------------------------------------
\* Serializer, values-first layout: proof object
\*   [values, evProof: [root, nodes, depth], lcProof: [root, nodes, depth],
\*    ldProof: [components, remainder]]
\* nodeSize = getHashDigestSize(hashAlgorithm) is c.hashDigestSize.
\* ------------------------------------------------------------------------
getValueCountValuesFirst(c) == c.stateWidth + c.secretInputCount

RECURSIVE writeComponentsValuesFirst(_, _)
\* for (let i = 0; i < proof.ldProof.components.length; i++) { ... }
writeComponentsValuesFirst(w, components) ==
    IF components = <<>> THEN w
    ELSE LET c == Head(components)
         IN writeComponentsValuesFirst(
                writeMerkleProof(writeMerkleProof(copyTo(w, c.columnRoot),
                                                  c.columnProof),
                                 c.polyProof),
                Tail(components))

\* the writer after the last write of serializeProof
serializeWriterValuesFirst(p, total) ==
    LET w1 == writeArray(allocUnsafe(total), p.values)
        w2 == copyTo(w1, p.evProof.root)
        w3 == writeUInt8(w2, p.evProof.depth)
        w4 == writeMatrix(w3, p.evProof.nodes)
        w5 == copyTo(w4, p.lcProof.root)
        w6 == writeUInt8(w5, p.lcProof.depth)
        w7 == writeMatrix(w6, p.lcProof.nodes)
        w8 == writeUInt8(w7, Len(p.ldProof.components))
        w9 == writeComponentsValuesFirst(w8, p.ldProof.components)
    IN writeArray(w9, p.ldProof.remainder)

\* a serializer that allocates the values' bytes twice
serializeProofValuesFirstOversized(c, p, j) ==
    LET sz == sizeOf(p, c.hashDigestSize)
    IN IF ~sz.ok THEN [ok |-> FALSE, buffer |-> <<>>, offset |-> 0]
       ELSE returnBuffer(serializeWriterValuesFirst(p, sz.total + sz.evData), j)

\* serializeProof(proof, hashAlgorithm): [ok, buffer, offset]
serializeProofValuesFirst(c, p, j) ==
    LET sz == sizeOf(p, c.hashDigestSize)
    IN IF ~sz.ok THEN [ok |-> FALSE, buffer |-> <<>>, offset |-> 0]
       ELSE returnBuffer(serializeWriterValuesFirst(p, sz.total), j)

\* a component followed by the components read after it; its offsets are
\* those of columnRoot, columnProof and polyProof, then the later components'
componentsOf(rd) ==
    ReturnAt(rd, <<[columnRoot |-> rd.vals[1], columnProof |-> rd.vals[2],
                    polyProof |-> rd.vals[3]]>> \o rd.vals[4],
             SubSeq(rd.offs, 1, 3) \o SubSeq(rd.offs, 5, Len(rd.offs)))

RECURSIVE readComponentsValuesFirst(_, _, _, _, _)
\* for (let i = 0; i < componentCount; i++) { ... }
readComponentsValuesFirst(buf, off, count, nodeSize, j) ==
    IF count = 0 THEN [ok |-> TRUE, off |-> off, val |-> <<>>]
    ELSE LET r1 == Then(Reader(off), LAMBDA o, vs : copyFrom(buf, o, nodeSize, j))
             r2 == Then(r1, LAMBDA o, vs : readMerkleProof(buf, o, nodeSize, nodeSize))
             r3 == Then(r2, LAMBDA o, vs : readMerkleProof(buf, o, nodeSize, nodeSize))
             r4 == Then(r3, LAMBDA o, vs :
                        readComponentsValuesFirst(buf, o, count - 1, nodeSize, j))
         IN componentsOf(r4)

\* the proof object parseProof returns
proofOfValuesFirst(rd) ==
    Return(rd, [values |-> rd.vals[1],
                evProof |-> [root |-> rd.vals[2], nodes |-> rd.vals[4],
                             depth |-> rd.vals[3]],
                lcProof |-> [root |-> rd.vals[5], nodes |-> rd.vals[7],
                             depth |-> rd.vals[6]],
                ldProof |-> [components |-> rd.vals[9],
                             remainder |-> rd.vals[10]]])

\* parseProof(buffer, hashAlgorithm): [ok, off, val]
parseProofValuesFirst(c, buf, j) ==
    LET nodeSize == c.hashDigestSize
        valueSize == getValueCountValuesFirst(c) * c.fieldElementSize
        \* values
        r1 == Then(Reader(0), LAMBDA o, vs : readArray(buf, o, valueSize))
        \* evProof: root, depth, nodes
        r2 == Then(r1, LAMBDA o, vs : copyFrom(buf, o, nodeSize, j))
        r3 == Then(r2, LAMBDA o, vs : readUInt8(buf, o))
        r4 == Then(r3, LAMBDA o, vs : readMatrix(buf, o, nodeSize))
        \* lcProof: root, depth, nodes
        r5 == Then(r4, LAMBDA o, vs : copyFrom(buf, o, nodeSize, j))
        r6 == Then(r5, LAMBDA o, vs : readUInt8(buf, o))
        r7 == Then(r6, LAMBDA o, vs : readMatrix(buf, o, nodeSize))
        \* componentCount, components, remainder
        r8 == Then(r7, LAMBDA o, vs : readUInt8(buf, o))
        r9 == Then(r8, LAMBDA o, vs :
                   readComponentsValuesFirst(buf, o, vs[8], nodeSize, j))
        r10 == Then(r9, LAMBDA o, vs : readArray(buf, o, nodeSize))
    IN proofOfValuesFirst(r10)

\* the Stark's serialize / parse for the layout of its Serializer
\* ---- leaves of the evaluation tree: mergeValues / parseValues ----

RECURSIVE toString16(_)
\* value.toString(16): the hex digits of a value >= 0, highest first, without
\* leading zeros
toString16(value) ==
    IF value < 16 THEN <<value>>
    ELSE Append(toString16(value \div 16), value % 16)

\* hex.padStart(padLength, '0')
padStart(hex, padLength) ==
    [i \in 1..(padLength - Len(hex)) |-> 0] \o hex

\* offset += buffer.write(hex, offset, length, 'hex'): writes the bytes that
\* the leading digit pairs of hex encode, at most length of them and at most
\* what is left of the buffer; an unpaired last digit is dropped
hexWrite(w, hex, length) ==
    LET n == Min(Min(length, Len(hex) \div 2), w.cap - Len(w.out))
    IN [w EXCEPT !.out = w.out \o [i \in 1..n |-> 16 * hex[2 * i - 1] + hex[2 * i]]]

padLengthOneDigit(valueSize) == 1

padLength(valueSize) == valueSize * 2

RECURSIVE mergeLoop(_, _, _, _, _)
\* the writer after the first count registers of values were written
mergeLoop(w, values, position, count, valueSize) ==
    IF count = 0 THEN w
    ELSE hexWrite(mergeLoop(w, values, position, count - 1, valueSize),
                  padStart(toString16(values[count][position + 1]),
                           padLength(valueSize)),
                  valueSize)

\* serializer.mergeValues([pValues, sValues], position)
mergeValues(c, pValues, sValues, position, j) ==
    bufferOf(mergeLoop(mergeLoop(allocUnsafe(getValueCountValuesFirst(c)
                                             * c.fieldElementSize),
                                 pValues, position, c.stateWidth,
                                 c.fieldElementSize),
                       sValues, position, c.secretInputCount,
                       c.fieldElementSize),
             j)

\* buffer.toString('hex', start, end): two digits per byte of the part of
\* start..end that lies inside the buffer
toStringHex(buffer, start, end) ==
    LET bytes == SubSeq(buffer, Min(start, Len(buffer)) + 1, Min(end, Len(buffer)))
    IN [i \in 1..(2 * Len(bytes)) |->
          IF i % 2 = 1 THEN bytes[(i + 1) \div 2] \div 16
          ELSE bytes[i \div 2] % 16]

RECURSIVE fromHex(_)
fromHex(hex) ==
    IF hex = <<>> THEN 0
    ELSE 16 * fromHex(SubSeq(hex, 1, Len(hex) - 1)) + hex[Len(hex)]

\* BigInt('0x' + hex): a SyntaxError when there is no digit
BigIntOfHex(hex) ==
    IF hex = <<>> THEN [ok |-> FALSE, val |-> 0]
    ELSE [ok |-> TRUE, val |-> fromHex(hex)]

\* the count values read from offset on, elementSize bytes each
parseLoop(buffer, offset, count, elementSize) ==
    [i \in 1..count |->
        BigIntOfHex(toStringHex(buffer, offset + (i - 1) * elementSize,
                                offset + i * elementSize))]

\* serializer.parseValues(buffer)
parseValues(c, buffer) ==
    LET p == parseLoop(buffer, 0, c.stateWidth, c.fieldElementSize)
        s == parseLoop(buffer, c.stateWidth * c.fieldElementSize,
                       c.secretInputCount, c.fieldElementSize)
    IN IF \A i \in 1..Len(p \o s) : (p \o s)[i].ok
       THEN [ok |-> TRUE,
             val |-> <<[i \in 1..Len(p) |-> p[i].val],
                       [i \in 1..Len(s) |-> s[i].val]>>]
       ELSE [ok |-> FALSE, val |-> <<>>]

Serialize(c, p, j) ==
    IF c.layout = "valuesFirst" THEN serializeProofValuesFirst(c, p, j)
    ELSE serializeProof(c, p, j)

Parse(c, buf, j) ==
    IF c.layout = "valuesFirst" THEN parseProofValuesFirst(c, buf, j)
    ELSE parseProof(c, buf, j)

\* ------------------------------------------------------------------------
\* Finite field handle (field library): arithmetic modulo the prime m.
\* Vectors are sequences of field elements; position i of a domain of size n
\* generated by w holds w^(i-1).
\* ------------------------------------------------------------------------
fadd(m, a, b) == (a + b) % m
fsub(m, a, b) == (a + m - b) % m
fmul(m, a, b) == (a * b) % m

RECURSIVE fexp(_, _, _)
fexp(m, b, e) ==
    IF e = 0 THEN 1
    ELSE IF e % 2 = 0 THEN fexp(m, fmul(m, b, b), e \div 2)
    ELSE fmul(m, b, fexp(m, fmul(m, b, b), e \div 2))

\* the inverse of 0 is taken to be 0
finv(m, a) == IF a = 0 THEN 0 ELSE CHOOSE x \in 1..(m - 1) : (a * x) % m = 1
fdiv(m, a, b) == fmul(m, a, finv(m, b))

getPowerSeries(m, seed, n) == [i \in 1..n |-> fexp(m, seed, i - 1)]
mulVectorElements(m, a, b) ==
    CHOOSE v \in {[i \in 1..Len(x) |-> fmul(m, x[i], y[i])] :
                    x \in {a}, y \in {b}} : TRUE
divVectorElements(m, a, b) ==
    CHOOSE v \in {[i \in 1..Len(x) |-> fdiv(m, x[i], y[i])] :
                    x \in {a}, y \in {b}} : TRUE
addVectorElements(m, a, b) ==
    CHOOSE v \in {[i \in 1..Len(x) |-> fadd(m, x[i], y[i])] :
                    x \in {a}, y \in {b}} : TRUE

RECURSIVE fsumTo(_, _, _)
\* the sum of the first n entries of s
fsumTo(m, s, n) == IF n = 0 THEN 0 ELSE fadd(m, fsumTo(m, s, n - 1), s[n])

\* the vector is evaluated once, then summed
fsum(m, vector) ==
    CHOOSE sum \in {fsumTo(m, s, Len(s)) : s \in {vector}} : TRUE

RECURSIVE fprod(_, _)
fprod(m, s) ==
    IF Len(s) = 0 THEN 1
    ELSE IF Len(s) = 1 THEN s[1] % m
    ELSE fmul(m, fprod(m, Front(s)), fprod(m, Back(s)))

\* inner product of a vector of values and a vector of coefficients
combineVectors(m, v, k) == fsum(m, [i \in 1..Len(v) |-> fmul(m, v[i], k[i])])

\* linear combination of vectors: position j is sum_i k[i] * vectors[i][j]
combineManyVectors(m, vectors, k) ==
    CHOOSE combination \in
        {[j \in 1..Len(vs[1]) |->
            fsum(m, [i \in 1..Len(vs) |-> fmul(m, vs[i][j], ks[i])])] :
            vs \in {vectors}, ks \in {k}} : TRUE

\* value of the polynomial with coefficients poly (lowest first) at x
evalPolyAt(m, poly, x) ==
    fsum(m, [k \in 1..Len(poly) |-> fmul(m, poly[k], fexp(m, x, k - 1))])

\* interpolateRoots(domain, ys): coefficients of the polynomial of degree
\* below |domain| that takes the value ys[j] at domain[j]
interpolateRoots(m, domain, ys) ==
    CHOOSE poly \in
        {[k \in 1..n |->
            fdiv(m, fsum(m, [j \in 1..n |->
                               fmul(m, y[j],
                                    d[((n - (((j - 1) * (k - 1)) % n)) % n) + 1])]),
                 n % m)] :
            d \in {domain}, y \in {ys}, n \in {Len(domain)}} : TRUE

\* evalPolyAtRoots(poly, domain)
evalPolyAtRoots(m, poly, domain) ==
    CHOOSE ys \in
        {[i \in 1..n |->
            fsum(m, [k \in 1..Len(p) |->
                       fmul(m, p[k], d[(((i - 1) * (k - 1)) % n) + 1])])] :
            d \in {domain}, p \in {poly}, n \in {Len(domain)}} : TRUE

\* field.prng(seed, n).toValues(): a deterministic stream of field elements
prng(m, seed, n) == [k \in 1..n |-> (29 * seed + 13 * k * k + 7 * k + 1) % m]

\* ------------------------------------------------------------------------
\* Evaluation context, AIR constraint evaluators, zero polynomial and boundary
\* constraints (collaborators of CompositionPolynomial).
\* A context is [field, traceLength, extensionFactor, rootOfUnity,
\* compositionFactor, constraints, pPolys, failing].
\* ------------------------------------------------------------------------
RECURSIVE CeilLog2(_)
\* Math.ceil(Math.log2(n)) for an integer n >= 1
CeilLog2(n) == IF n <= 1 THEN 0 ELSE 1 + CeilLog2((n + 1) \div 2)

evaluationDomain(ctx) ==
    getPowerSeries(ctx.field, ctx.rootOfUnity, ctx.traceLength * ctx.extensionFactor)

compositionDomain(ctx) ==
    getPowerSeries(ctx.field,
                   fexp(ctx.field, ctx.rootOfUnity,
                        ctx.extensionFactor \div ctx.compositionFactor),
                   ctx.traceLength * ctx.compositionFactor)

\* generator of the trace domain
traceGenerator(ctx) == fexp(ctx.field, ctx.rootOfUnity, ctx.extensionFactor)

\* the transition constraint of degree d and factor c over two registers:
\*   next[(d % 2) + 1] - c * current[1]^(d-1) * current[2]
evaluateConstraint(m, constraint, pValues, nValues) ==
    fsub(m, nValues[(constraint.degree % 2) + 1],
         fmul(m, constraint.factor,
              fmul(m, fexp(m, pValues[1], constraint.degree - 1), pValues[2])))

\* context.evaluateConstraintsAt(x, pValues, nValues, hValues)
evaluateConstraintsAt(ctx, x, pValues, nValues) ==
    [i \in 1..Len(ctx.constraints) |->
        evaluateConstraint(ctx.field, ctx.constraints[i], pValues, nValues)]

\* context.evaluateTracePolynomials(pPolys): row i holds constraint i at
\* every point x of the composition domain, from P(x) and P(x * g)
evaluateTracePolynomials(ctx, pPolys) ==
    LET m == ctx.field
        dom == compositionDomain(ctx)
        g == traceGenerator(ctx)
        at(x) == [r \in 1..Len(pPolys) |-> evalPolyAt(m, pPolys[r], x)]
    IN [i \in 1..Len(ctx.constraints) |->
          [j \in 1..Len(dom) |->
             evaluateConstraint(m, ctx.constraints[i], at(dom[j]),
                                at(fmul(m, dom[j], g)))]]

\* ZeroPolynomial: Z(x) = (x^T - 1) / (x - g^(T-1))
zPolyNumerator(ctx, x) == fsub(ctx.field, fexp(ctx.field, x, ctx.traceLength), 1)
zPolyDenominator(ctx, x) ==
    fsub(ctx.field, x, fexp(ctx.field, traceGenerator(ctx), ctx.traceLength - 1))
zPolyEvaluateAt(ctx, x) ==
    fdiv(ctx.field, zPolyNumerator(ctx, x), zPolyDenominator(ctx, x))
zPolyEvaluateAll(ctx, domain) ==
    [numerators |-> [i \in 1..Len(domain) |-> zPolyNumerator(ctx, domain[i])],
     denominators |-> [i \in 1..Len(domain) |-> zPolyDenominator(ctx, domain[i])]]

\* BoundaryConstraints: one polynomial per register that has assertions,
\*   B_r(x) = (P_r(x) - I_r(x)) / prod_s (x - g^s)
\* with I_r the interpolant of the asserted (g^s, value) points.
\* registers: the asserted registers in ascending order.
bPolyRegisters(assertions) ==
    LET has(r) == \E k \in 1..Len(assertions) : assertions[k].register = r
    IN IF has(0) /\ has(1) THEN <<0, 1>>
       ELSE IF has(0) THEN <<0>>
       ELSE IF has(1) THEN <<1>>
       ELSE <<>>

bPolyCount(assertions) == Len(bPolyRegisters(assertions))

bPolyValueAt(ctx, assertions, r, pValue, x) ==
    LET m == ctx.field
        g == traceGenerator(ctx)
        mine == SelectSeq([k \in 1..Len(assertions) |-> k],
                          LAMBDA k : assertions[k].register = r)
        xs(k) == fexp(m, g, assertions[k].step)
        others(k) == SelectSeq(mine, LAMBDA j : j # k)
        basis(k) ==
            LET o == others(k)
            IN fdiv(m, fprod(m, [i \in 1..Len(o) |-> fsub(m, x, xs(o[i]))]),
                       fprod(m, [i \in 1..Len(o) |-> fsub(m, xs(k), xs(o[i]))]))
        interpolant ==
            fsum(m, [i \in 1..Len(mine) |->
                       fmul(m, assertions[mine[i]].value, basis(mine[i]))])
        zero == fprod(m, [i \in 1..Len(mine) |-> fsub(m, x, xs(mine[i]))])
    IN fdiv(m, fsub(m, pValue, interpolant), zero)

\* bPoly.evaluateAt(pValues, x)
bPolyEvaluateAt(ctx, assertions, pValues, x) ==
    LET regs == bPolyRegisters(assertions)
    IN [i \in 1..Len(regs) |->
          bPolyValueAt(ctx, assertions, regs[i], pValues[regs[i] + 1], x)]

\* bPoly.evaluateAll(pEvaluations, domain)
bPolyEvaluateAll(ctx, assertions, pEvaluations, domain) ==
    LET regs == bPolyRegisters(assertions)
    IN [i \in 1..Len(regs) |->
          [j \in 1..Len(domain) |->
             bPolyValueAt(ctx, assertions, regs[i], pEvaluations[regs[i] + 1][j],
                          domain[j])]]

\* ------------------------------------------------------------------------
\* CompositionPolynomial
\* ------------------------------------------------------------------------
RECURSIVE maxConstraintDegree(_, _)
\* the running maximum after the first i constraints, starting from 1
maxConstraintDegree(constraints, i) ==
    IF i = 0 THEN 1
    ELSE LET m == maxConstraintDegree(constraints, i - 1)
         IN IF m < constraints[i].degree THEN constraints[i].degree ELSE m

RECURSIVE FloorLog2(_)
FloorLog2(n) == IF n <= 1 THEN 0 ELSE 1 + FloorLog2(n \div 2)

getCombinationDegreeNextPower(constraints, traceLength) ==
    Pow(2, 1 + FloorLog2(maxConstraintDegree(constraints, Len(constraints))))
        * traceLength

getCombinationDegree(constraints, traceLength) ==
    Pow(2, CeilLog2(maxConstraintDegree(constraints, Len(constraints))))
        * traceLength

RECURSIVE groupLoop(_, _, _)
\* the Map after the first i constraints, in insertion order
groupLoop(constraints, traceLength, i) ==
    IF i = 0 THEN <<>>
    ELSE LET groups == groupLoop(constraints, traceLength, i - 1)
             degree == constraints[i].degree * traceLength
             found == {g \in 1..Len(groups) : groups[g].degree = degree}
         IN IF found = {}
            THEN Append(groups, [degree |-> degree, indexes |-> <<i - 1>>])
            ELSE LET g == CHOOSE g \in found : TRUE
                 IN [groups EXCEPT ![g].indexes = Append(@, i - 1)]

RECURSIVE insertByDegree(_, _)
insertByDegree(groups, group) ==
    IF groups = <<>> THEN <<group>>
    ELSE IF group.degree < Head(groups).degree THEN <<group>> \o groups
    ELSE <<Head(groups)>> \o insertByDegree(Tail(groups), group)

RECURSIVE sortByDegree(_)
sortByDegree(groups) ==
    IF groups = <<>> THEN <<>>
    ELSE insertByDegree(sortByDegree(Tail(groups)), Head(groups))

\* groups kept in an object keyed by degree come out in ascending degree
groupTransitionConstraintsByDegree(constraints, traceLength) ==
    sortByDegree(groupLoop(constraints, traceLength, Len(constraints)))

groupTransitionConstraints(constraints, traceLength) ==
    groupLoop(constraints, traceLength, Len(constraints))

\* Stark.prove(assertions, ...) validates its parameters before it builds
\* anything: an empty assertions list is an input error
InputError == [ok |-> FALSE, error |-> "Input error"]

proveAcceptsEmpty(assertions) == TRUE

proveAccepts(assertions) == Len(assertions) >= 1

\* a constructor that counts an adjusted copy for every constraint
dCoefficientCountEveryGroup(constraints, constraintGroups, combinationDegree) ==
    Len(constraints)
    + SumSeq([g \in 1..Len(constraintGroups) |->
                Len(constraintGroups[g].indexes)])

\* constructor: let dCoefficientCount = constraints.length; for (...) { ... }
dCoefficientCount(constraints, constraintGroups, combinationDegree) ==
    Len(constraints)
    + SumSeq([g \in 1..Len(constraintGroups) |->
                IF constraintGroups[g].degree < combinationDegree
                THEN Len(constraintGroups[g].indexes) ELSE 0])

\* a constructor that never doubles the count
bCoefficientCountSingle(count, compositionDegree, traceLength) == count

\* constructor: let bCoefficientCount = this.bPoly.count; if (...) { ... }
bCoefficientCount(count, compositionDegree, traceLength) ==
    IF compositionDegree > traceLength THEN count * 2 ELSE count

\* a constructor that draws the beta coefficients with a second call of the
\* generator
bCoefficientsSecondDraw(coefficients, dCount, m, seed) ==
    prng(m, seed, Len(coefficients) - dCount)

\* coefficients.slice(0, dCoefficientCount)
dCoefficientsOf(coefficients, dCount) == SubSeq(coefficients, 1, dCount)

\* coefficients.slice(dCoefficientCount)
bCoefficientsOf(coefficients, dCount, m, seed) ==
    SubSeq(coefficients, dCount + 1, Len(coefficients))

\* new CompositionPolynomial(constraints, assertions, seed, context)
CompositionPolynomial(constraints, assertions, seed, context) ==
    LET combinationDegree == getCombinationDegree(constraints, context.traceLength)
        compositionDegree ==
            Max(combinationDegree - context.traceLength, context.traceLength)
        constraintGroups ==
            groupTransitionConstraints(constraints, context.traceLength)
        dCount == dCoefficientCount(constraints, constraintGroups,
                                    combinationDegree)
        bCount == bCoefficientCount(bPolyCount(assertions), compositionDegree,
                                    context.traceLength)
        coefficients == prng(context.field, seed, dCount + bCount)
    IN [ok |-> TRUE,
        combinationDegree |-> combinationDegree,
        compositionDegree |-> compositionDegree,
        constraintGroups |-> constraintGroups,
        assertions |-> assertions,
        dCoefficients |-> dCoefficientsOf(coefficients, dCount),
        bCoefficients |-> bCoefficientsOf(coefficients, dCount, context.field,
                                          seed)]

coefficientCount(this) == Len(this.dCoefficients) + Len(this.bCoefficients)

\* an evaluateAll that takes the powers from the evaluation domain's root
compositionRouOfEvaluationDomain(context) == context.rootOfUnity

\* evaluateAll, step 2: compositionFactor and compositionRou
compositionRou(context) ==
    fexp(context.field, context.rootOfUnity,
         Len(evaluationDomain(context)) \div Len(compositionDomain(context)))

RECURSIVE adjustAll(_, _, _, _)
\* the vectors pushed onto qaEvaluations by the first g constraint groups
adjustAll(this, context, qEvaluations, g) ==
    IF g = 0 THEN <<>>
    ELSE LET group == this.constraintGroups[g]
             before == adjustAll(this, context, qEvaluations, g - 1)
             incrementalDegree == this.combinationDegree - group.degree
             powerSeed == fexp(context.field, compositionRou(context),
                               incrementalDegree)
             powers == getPowerSeries(context.field, powerSeed,
                                      Len(compositionDomain(context)))
         IN IF group.degree = this.combinationDegree THEN before
            ELSE before \o
                 [k \in 1..Len(group.indexes) |->
                    mulVectorElements(context.field,
                                      qEvaluations[group.indexes[k] + 1], powers)]

\* evaluateAll, steps 1-2: the rows of qEvaluations followed by the adjusted
\* vectors
qaEvaluations(this, pPolys, context) ==
    LET qEvaluations == evaluateTracePolynomials(context, pPolys)
    IN qEvaluations
       \o adjustAll(this, context, qEvaluations, Len(this.constraintGroups))

\* evaluateAll, step 3: the linear combination over the composition domain,
\* extended to the evaluation domain
qeEvaluations(this, pPolys, context) ==
    evalPolyAtRoots(context.field,
        interpolateRoots(context.field, compositionDomain(context),
            combineManyVectors(context.field,
                               qaEvaluations(this, pPolys, context),
                               this.dCoefficients)),
        evaluationDomain(context))

\* an evaluateAll that multiplies by Z(x)
zInversesOfInverses(context) ==
    LET zEvaluations == zPolyEvaluateAll(context, evaluationDomain(context))
    IN divVectorElements(context.field, zEvaluations.numerators,
                         zEvaluations.denominators)

\* evaluateAll, step 4: zInverses
zInverses(context) ==
    LET zEvaluations == zPolyEvaluateAll(context, evaluationDomain(context))
    IN divVectorElements(context.field, zEvaluations.denominators,
                         zEvaluations.numerators)

\* evaluateAll, step 4: D(x) = Q(x) / Z(x)
dEvaluations(context, qe) ==
    mulVectorElements(context.field, qe, zInverses(context))

\* const bIncrementalDegree = BigInt(this.compositionDegree - context.traceLength)
bIncrementalDegree(this, context) == this.compositionDegree - context.traceLength

\* an adjustment that takes the powers from the composition domain's root
psbPowersOfCompositionDomain(this, context) ==
    getPowerSeries(context.field,
                   fexp(context.field, compositionRou(context),
                        bIncrementalDegree(this, context)),
                   Len(evaluationDomain(context)))

\* evaluateAll, step 6: powerSeed and psbPowers
psbPowers(this, context) ==
    getPowerSeries(context.field,
                   fexp(context.field, context.rootOfUnity,
                        bIncrementalDegree(this, context)),
                   Len(evaluationDomain(context)))

\* evaluateAll, steps 5-6: the rows of bEvaluations followed by the adjusted
\* vectors
baEvaluations(this, pEvaluations, context) ==
    LET m == context.field
        bEvaluations == bPolyEvaluateAll(context, this.assertions, pEvaluations,
                                         evaluationDomain(context))
    IN IF bIncrementalDegree(this, context) > 0
       THEN bEvaluations
            \o [i \in 1..bPolyCount(this.assertions) |->
                  mulVectorElements(m, bEvaluations[i],
                                    psbPowers(this, context))]
       ELSE bEvaluations

\* evaluateAll, step 7
bcEvaluations(this, pEvaluations, context) ==
    combineManyVectors(context.field, baEvaluations(this, pEvaluations, context),
                       this.bCoefficients)

\* compositionPolynomial.evaluateAll(pPolys, pEvaluations, context)
evaluateAll(this, pPolys, pEvaluations, context) ==
    addVectorElements(context.field,
                      dEvaluations(context, qeEvaluations(this, pPolys, context)),
                      bcEvaluations(this, pEvaluations, context))

\* new StarkError(message, cause): the call that throws it returns nothing
StarkError(message, cause) ==
    [ok |-> FALSE, name |-> "StarkError", message |-> message, cause |-> cause]

\* the error a failing context.evaluateTracePolynomials throws
TraceError == [name |-> "Error", message |-> "constraint evaluation failed"]

\* context.evaluateTracePolynomials(pPolys), the n-th call on a context whose
\* first `failures` calls throw
evaluateTracePolynomialsThrows(failures, n) == n <= failures

\* the messages evaluateAll hands to this.log, in order
EvaluateAllLog ==
    <<"Computed transition constraint polynomials Q(x)",
      "Adjusted degrees of Q(x) polynomials",
      "Computed linear combination of Q(x) polynomials",
      "Performed low degree extensions of Q(x) polynomial",
      "Computed Z(x) polynomial",
      "Computed Z(x) inverses",
      "Computed D(x) polynomial",
      "Computed boundary constraint polynomials B(x)",
      "Adjusted degrees of B(x) polynomials",
      "Computed linear combination of B(x) polynomials">>

\* the outcome of a call of evaluateAll: the value returned or the error
\* thrown, the messages logged, and the number of calls made to
\* context.evaluateTracePolynomials
Outcome(result, log, calls, failures) ==
    [f \in DOMAIN result \cup {"log", "calls", "failures"} |->
        IF f = "log" THEN log
        ELSE IF f = "calls" THEN calls
        ELSE IF f = "failures" THEN failures
        ELSE result[f]]

\* an evaluateAll that calls context.evaluateTracePolynomials a second time
\* when the first call throws
tryEvaluateAllRetrying(this, pPolys, pEvaluations, context, failures) ==
    IF evaluateTracePolynomialsThrows(failures, 1)
       /\ evaluateTracePolynomialsThrows(failures, 2)
    THEN Outcome(StarkError("Failed to evaluate transition constraints",
                            TraceError),
                 <<>>, 2, failures)
    ELSE Outcome([ok |-> TRUE,
                  values |-> evaluateAll(this, pPolys, pEvaluations, context)],
                 EvaluateAllLog,
                 IF evaluateTracePolynomialsThrows(failures, 1) THEN 2 ELSE 1,
                 failures)

\* evaluateAll with its try / catch around context.evaluateTracePolynomials
tryEvaluateAll(this, pPolys, pEvaluations, context, failures) ==
    IF evaluateTracePolynomialsThrows(failures, 1)
    THEN Outcome(StarkError("Failed to evaluate transition constraints",
                            TraceError),
                 <<>>, 1, failures)
    ELSE Outcome([ok |-> TRUE,
                  values |-> evaluateAll(this, pPolys, pEvaluations, context)],
                 EvaluateAllLog, 1, failures)

constraintIncrementalDegreeUnadjusted(this, degree) == 0

\* the exponent evaluateAt raises x to for a group of the given degree
constraintIncrementalDegree(this, degree) == this.combinationDegree - degree

RECURSIVE adjustAt(_, _, _, _, _)
\* the values pushed onto qValues by the first g constraint groups
adjustAt(this, context, qValues, x, g) ==
    IF g = 0 THEN <<>>
    ELSE LET group == this.constraintGroups[g]
             before == adjustAt(this, context, qValues, x, g - 1)
             power == fexp(context.field, x,
                           constraintIncrementalDegree(this, group.degree))
         IN IF group.degree = this.combinationDegree THEN before
            ELSE before \o
                 [k \in 1..Len(group.indexes) |->
                    fmul(context.field, qValues[group.indexes[k] + 1], power)]

\* evaluateAt: qValues after the adjustment loop
qVector(this, x, pValues, nValues, context) ==
    LET qValues == evaluateConstraintsAt(context, x, pValues, nValues)
    IN qValues \o adjustAt(this, context, qValues, x, Len(this.constraintGroups))

\* evaluateAt: D(x) = Q(x) / Z(x)
dValue(this, x, pValues, nValues, context) ==
    fdiv(context.field,
         combineVectors(context.field, qVector(this, x, pValues, nValues, context),
                        this.dCoefficients),
         zPolyEvaluateAt(context, x))

\* evaluateAt: bValues after the adjustment loop
bVector(this, x, pValues, context) ==
    LET m == context.field
        bValues == bPolyEvaluateAt(context, this.assertions, pValues, x)
    IN IF bIncrementalDegree(this, context) > 0
       THEN bValues
            \o [i \in 1..bPolyCount(this.assertions) |->
                  fmul(m, bValues[i],
                       fexp(m, x, bIncrementalDegree(this, context)))]
       ELSE bValues

bValue(this, x, pValues, context) ==
    combineVectors(context.field, bVector(this, x, pValues, context),
                   this.bCoefficients)

\* compositionPolynomial.evaluateAt(x, pValues, nValues, hValues, context)
evaluateAt(this, x, pValues, nValues, context) ==
    fadd(context.field, dValue(this, x, pValues, nValues, context),
         bValue(this, x, pValues, context))

\* ------------------------------------------------------------------------
\* Inputs: configurations and proof objects
\* ------------------------------------------------------------------------
\* (stateWidth, sRegisterCount, iRegisterCount)
RegisterCounts == {<<1, 0, 0>>, <<2, 1, 1>>}

Configs ==
    {[layout |-> "rootsFirst", fieldElementSize |-> f, hashDigestSize |-> h,
      stateWidth |-> r[1], sRegisterCount |-> r[2], iRegisterCount |-> r[3]] :
        f \in 1..MaxFieldElementSize, h \in 1..MaxHashDigestSize,
        r \in RegisterCounts}

\* (stateWidth, secretInputCount)
RegisterCountsValuesFirst == {<<1, 0>>, <<2, 1>>}

ConfigsValuesFirst ==
    {[layout |-> "valuesFirst", fieldElementSize |-> f, hashDigestSize |-> h,
      stateWidth |-> r[1], secretInputCount |-> r[2]] :
        f \in 1..MaxFieldElementSize, h \in 1..MaxHashDigestSize,
        r \in RegisterCountsValuesFirst}

JunkBytes == {0, 255}

\* n bytes that depend on tag and on the position
Blob(n, tag) == [i \in 1..n |-> (37 * tag + 11 * i) % 256]

\* the i-th remainder element: a field element below 256^elementSize
FieldValue(i, elementSize) == (263 * i + 5) % Pow(256, elementSize)

\* a batch Merkle proof with nv leaves of leafSize bytes and nc node columns
\* (column k holds (k + 1) % 3 nodes of nodeSize bytes)
MkMerkleProof(nv, leafSize, nc, nodeSize, tag) ==
    [values |-> [i \in 1..nv |-> Blob(leafSize, tag + i)],
     nodes |-> [k \in 1..nc |->
                  [n \in 1..((k + 1) % 3) |-> Blob(nodeSize, tag + 10 * k + n)]],
     depth |-> 3 + (tag % 5)]

\* trace-shape counts: 2^32 - 1 and 66051 = 0x00010203 are uint32, 2^32 is not
TraceCount(i) == IF i = 1 THEN U32(65535, 65535) ELSE U32(1, 515 + i)

MkProof(c, nv, nc, ncomp, rlen, shape) ==
    LET evLeafSize == getValueCount(c) * c.fieldElementSize
        h == c.hashDigestSize
    IN [evRoot |-> Blob(h, 1),
        evProof |-> MkMerkleProof(nv, evLeafSize, nc, h, 20),
        ldProof |->
            [lcRoot |-> Blob(h, 2),
             lcProof |-> MkMerkleProof(MaxValues + 1 - nv, 4 * c.fieldElementSize,
                                       nc, h, 40),
             components |->
                 [k \in 1..ncomp |->
                    [columnRoot |-> Blob(h, 2 + k),
                     columnProof |-> MkMerkleProof(nv, 4 * c.fieldElementSize, nc, h,
                                                   60 + 40 * k),
                     polyProof |-> MkMerkleProof(1, 4 * c.fieldElementSize, 0, h,
                                                 80 + 40 * k)]],
             remainder |-> [i \in 1..rlen |-> FieldValue(i, c.fieldElementSize)]],
        traceShape |-> shape]

\* proof shapes <<values, node columns, components, remainder entries, trace
\* depth>>: the smallest proof with one dimension varied, and the largest
Shapes ==
    {<<nv, 0, 0, 1, 0>> : nv \in 1..MaxValues}
    \cup {<<1, nc, 0, 1, 0>> : nc \in 0..MaxColumns}
    \cup {<<1, 0, ncomp, 1, 0>> : ncomp \in 0..MaxComponents}
    \cup {<<1, 0, 0, rlen, 0>> : rlen \in 1..2}
    \cup {<<1, 0, 0, 1, td>> : td \in 0..MaxTraceDepth}
    \cup {<<MaxValues, MaxColumns, MaxComponents, 2, MaxTraceDepth>>}

SmallProofs(c) ==
    {MkProof(c, sh[1], sh[2], sh[3], sh[4], [i \in 1..sh[5] |-> TraceCount(i)]) :
        sh \in Shapes}

\* proofs beyond the limits of the 1-byte prefixes, for the configurations
\* with a single register: 256 FRI components, and a trace shape of 255 and
\* of 256 counts
LengthPrefixProofs(c) ==
    IF getValueCount(c) > 1 THEN {}
    ELSE {MkProof(c, 1, 0, MAX_ARRAY_LENGTH, 1, <<>>)}
         \cup {MkProof(c, 1, 0, 0, 1, [i \in 1..depth |-> TraceCount(i)]) :
                  depth \in {MAX_ARRAY_LENGTH - 1, MAX_ARRAY_LENGTH}}

\* proofs at the limits of the length prefixes: remainder of 0, 255, 256 and
\* 257 entries, a trace-shape count of 2^32
EdgeProofs(c) ==
    {MkProof(c, 1, 0, 0, rlen, <<>>) :
        rlen \in {0, MAX_ARRAY_LENGTH - 1, MAX_ARRAY_LENGTH, MAX_ARRAY_LENGTH + 1}}
    \cup {MkProof(c, 1, 0, 0, 1, <<U32(0, 7), U32(65536, 0)>>)}
    \cup LengthPrefixProofs(c)

\* values-first proof: nvals leaves, FRI values and remainder entries of
\* nodeSize bytes (the element size its parser reads)
MkProofValuesFirst(c, nvals, nc, ncomp, rlen) ==
    LET valueSize == getValueCountValuesFirst(c) * c.fieldElementSize
        h == c.hashDigestSize
        nodes(tag) == MkMerkleProof(1, h, nc, h, tag).nodes
    IN [values |-> [i \in 1..nvals |-> Blob(valueSize, 100 + i)],
        evProof |-> [root |-> Blob(h, 1), nodes |-> nodes(20), depth |-> 5],
        lcProof |-> [root |-> Blob(h, 2), nodes |-> nodes(40), depth |-> 6],
        ldProof |->
            [components |->
                 [k \in 1..ncomp |->
                    [columnRoot |-> Blob(h, 2 + k),
                     columnProof |-> MkMerkleProof(nvals, h, nc, h, 60 + 40 * k),
                     polyProof |-> MkMerkleProof(1, h, 0, h, 80 + 40 * k)]],
             remainder |-> [i \in 1..rlen |-> Blob(h, 150 + i)]]]

SmallProofsValuesFirst(c) ==
    {MkProofValuesFirst(c, sh[1], sh[2], sh[3], sh[4]) : sh \in Shapes}

EdgeProofsValuesFirst(c) ==
    {MkProofValuesFirst(c, 1, 0, 0, rlen) :
        rlen \in {0, MAX_ARRAY_LENGTH - 1, MAX_ARRAY_LENGTH, MAX_ARRAY_LENGTH + 1}}

\* values-first proofs whose remainder entries are field elements, of
\* fieldElementSize bytes each
MkProofFieldRemainder(c, rlen) ==
    [MkProofValuesFirst(c, 1, 0, 0, rlen) EXCEPT
        !.ldProof.remainder = [i \in 1..rlen |-> Blob(c.fieldElementSize, 150 + i)]]

FieldRemainderProofs(c) == {MkProofFieldRemainder(c, rlen) : rlen \in 1..2}

\* proofs handed to sizeOf: every array at the limits of its length prefix
\* (values, a FRI column proof's values, a FRI poly proof's values, the
\* remainder) and one node column at the limit of the column length
MkProofSizeOf(h, nvals, columnLength, cvals, pvals, rlen) ==
    [values |-> [i \in 1..nvals |-> Blob(1, 100 + i)],
     evProof |-> [root |-> Blob(h, 1),
                  nodes |-> <<[n \in 1..columnLength |-> Blob(h, 20 + n)]>>,
                  depth |-> 5],
     lcProof |-> [root |-> Blob(h, 2), nodes |-> <<>>, depth |-> 6],
     ldProof |->
         [components |->
              <<[columnRoot |-> Blob(h, 3),
                 columnProof |-> [values |-> [i \in 1..cvals |-> Blob(h, 60 + i)],
                                  nodes |-> <<>>, depth |-> 4],
                 polyProof |-> [values |-> [i \in 1..pvals |-> Blob(h, 80 + i)],
                                nodes |-> <<>>, depth |-> 4]]>>,
          remainder |-> [i \in 1..rlen |-> Blob(h, 150 + i)]]]

ArrayLengths == {0, 1, MAX_ARRAY_LENGTH, MAX_ARRAY_LENGTH + 1}
ColumnLengths == {0, MAX_MATRIX_COLUMN_LENGTH - 1, MAX_MATRIX_COLUMN_LENGTH,
                  MAX_MATRIX_COLUMN_LENGTH + 1}

ProofsSizeOf(h) ==
    {MkProofSizeOf(h, nvals, columnLength, cvals, pvals, rlen) :
        nvals \in ArrayLengths, columnLength \in ColumnLengths,
        cvals \in ArrayLengths, pvals \in {1, MAX_ARRAY_LENGTH + 1},
        rlen \in ArrayLengths}

\* ------------------------------------------------------------------------
\* Inputs of the composition polynomial: a prime field with a root of unity
\* of order 32, constraint lists, contexts, trace polynomials, assertions
\* ------------------------------------------------------------------------
MaxConstraints == 2
MaxDegree == 3
MaxLogTraceLength == 2
MaxTraceFailures == 2
MaxRepeatPositions == 1

Fields == {[modulus |-> 97, rootOfUnity |-> 28, order |-> 32]}

\* constraint lists of 1..MaxConstraints constraints whose degrees start at a
\* and step by b (none, one or two) through 1..MaxDegree: equal, ascending
\* and descending degrees, with wrap-around; the i-th constraint of a
\* list has factor i, so no two constraints of a list are the same function.
\* A list whose first and third constraints share a degree that the second
\* does not have is there as well.
InterleavedConstraints ==
    <<[degree |-> 3, factor |-> 1], [degree |-> 1, factor |-> 2],
      [degree |-> 3, factor |-> 3]>>

ConstraintLists ==
    {[i \in 1..n |-> [degree |-> ((a + (i - 1) * b - 1) % MaxDegree) + 1,
                      factor |-> i]] :
        n \in 1..MaxConstraints, a \in 1..MaxDegree, b \in 0..2}
    \cup {InterleavedConstraints}

IsPowerOf2(k) == k >= 1 /\ k = Pow(2, FloorLog2(k))

\* contexts for a constraint list: the composition factor is the smallest
\* power of 2 that is at least the highest constraint degree, the extension
\* factor is two or four times that, and the evaluation domain fits the
\* field's root of unity
Contexts(constraints) ==
    LET k1 == Pow(2, CeilLog2(maxConstraintDegree(constraints, Len(constraints))))
        shapes == {t \in Fields \X (1..MaxLogTraceLength) \X (2..32) :
                      /\ t[3] \in {2 * k1, 4 * k1}
                      /\ Pow(2, t[2]) * t[3] <= t[1].order}
    IN {[field |-> t[1].modulus,
         traceLength |-> Pow(2, t[2]),
         extensionFactor |-> t[3],
         compositionFactor |-> k1,
         rootOfUnity |-> fexp(t[1].modulus, t[1].rootOfUnity,
                              t[1].order \div (Pow(2, t[2]) * t[3])),
         constraints |-> constraints] : t \in shapes}

\* two trace polynomials of degree below the trace length
TracePolys(context, traceSeed) ==
    [r \in 1..2 |->
        [k \in 1..context.traceLength |->
            (11 * traceSeed + 5 * r + 3 * k) % context.field]]

\* the trace polynomials' values over the evaluation domain
TraceEvaluations(context, pPolys) ==
    CHOOSE evaluations \in
        {[r \in 1..Len(pPolys) |->
            [i \in 1..Len(domain) |->
                evalPolyAt(context.field, pPolys[r], domain[i])]] :
            domain \in {evaluationDomain(context)}} : TRUE

\* assertions the trace satisfies: none, one, two on one register, one on each
Assertion(context, pPolys, register, step) ==
    [register |-> register, step |-> step,
     value |-> evalPolyAt(context.field, pPolys[register + 1],
                          fexp(context.field, traceGenerator(context), step))]

AssertionLists(context, pPolys) ==
    <<<<>>,
      <<Assertion(context, pPolys, 0, 0)>>,
      <<Assertion(context, pPolys, 0, 0),
        Assertion(context, pPolys, 0, context.traceLength - 1)>>,
      <<Assertion(context, pPolys, 0, 0), Assertion(context, pPolys, 1, 1)>>>>

\* the seed (of the trace and of the coefficients) that goes with the k-th
\* assertion list
SeedOf(k) == IF k % 2 = 0 THEN 1 ELSE 2

Airs ==
    UNION {UNION {UNION {
        {[constraints |-> constraints, context |-> context, seed |-> SeedOf(k),
          pPolys |-> pPolys,
          pEvaluations |-> TraceEvaluations(context, pPolys),
          assertions |-> AssertionLists(context, pPolys)[k]] :
            pPolys \in {TracePolys(context, SeedOf(k))}}
        : k \in 1..4}
        : context \in Contexts(constraints)}
        : constraints \in ConstraintLists}

\* ------------------------------------------------------------------------
\* Inputs of mergeValues: the evaluations of the state registers and of the
\* secret registers at TracePositions positions, and a position.  Register r
\* holds at position i a value that differs from its neighbours'; the base
\* values reach 0, the highest value of fieldElementSize bytes, and values
\* that need one more digit or one more byte than that.
\* ------------------------------------------------------------------------
TracePositions == 2

RegisterValue(base, r, i, limit) ==
    IF base < limit THEN (base + 41 * r + 7 * i) % limit
    ELSE base + r + i

BaseValues(limit) ==
    {0, 1, 16, limit - 56, limit - 49, limit - 48, limit, 16 * limit + 3}

Traces(c) ==
    LET limit == Pow(256, c.fieldElementSize)
    IN {[pValues |-> [r \in 1..c.stateWidth |->
                        [i \in 1..TracePositions |->
                            RegisterValue(base, r, i, limit)]],
         sValues |-> [r \in 1..c.secretInputCount |->
                        [i \in 1..TracePositions |->
                            RegisterValue(base, c.stateWidth + r, i, limit)]],
         position |-> position] :
            base \in BaseValues(limit), position \in 0..(TracePositions - 1)}

IdleSer ==
    /\ junk = 0 /\ junk2 = 0
    /\ ser = None /\ ser2 = None /\ wire = <<>> /\ par = None /\ reser = None

IdleSize == size = None

\* no call has been repeated
NoCalls == [all |-> None, at |-> None]

IdleComp ==
    /\ air = None /\ cp = None /\ cp2 = None /\ evAll = None /\ evAt = None
    /\ again = NoCalls

IdleLeaf == trace = None /\ leaf = None /\ leafValues = None

Idle == IdleSize /\ IdleComp /\ IdleLeaf

InitSer ==
    /\ pc = "ready"
    /\ cfg \in Configs \cup ConfigsValuesFirst
    /\ proof \in IF cfg.layout = "valuesFirst"
                 THEN SmallProofsValuesFirst(cfg) \cup EdgeProofsValuesFirst(cfg)
                      \cup FieldRemainderProofs(cfg)
                 ELSE SmallProofs(cfg) \cup EdgeProofs(cfg)
    /\ junk \in JunkBytes
    /\ junk2 = 255 - junk
    /\ ser = None /\ ser2 = None /\ wire = <<>> /\ par = None /\ reser = None
    /\ Idle

\* buf = serializer.serializeProof(proof)
SerializeProof ==
    /\ pc = "ready"
    /\ ser' = Serialize(cfg, proof, junk)
    /\ wire' = IF ser'.ok THEN ser'.buffer ELSE <<>>
    /\ pc' = IF ser'.ok THEN "serialized" ELSE "rejected"
    /\ UNCHANGED <<leafVars, cfg, proof, junk, junk2, ser2, par, reser, size, air, cp, cp2,
                   evAll, evAt, again>>

\* serializer.serializeProof(proof) once more, into other memory
SerializeAgain ==
    /\ pc = "serialized"
    /\ wire = ser.buffer
    /\ ser2 = None
    /\ ser2' = Serialize(cfg, proof, junk2)
    /\ UNCHANGED <<leafVars, pc, cfg, proof, junk, junk2, ser, wire, par, reser, size, air,
                   cp, cp2, evAll, evAt, again>>

\* proof = serializer.parseProof(buf)
ParseProof ==
    /\ pc = "serialized"
    /\ par' = Parse(cfg, wire, junk2)
    /\ pc' = IF par'.ok THEN "parsed" ELSE "parse_error"
    /\ UNCHANGED <<leafVars, cfg, proof, junk, junk2, ser, ser2, wire, reser, size, air, cp,
                   cp2, evAll, evAt, again>>

\* serializer.serializeProof(parsed proof)
Reserialize ==
    /\ pc = "parsed"
    /\ wire = ser.buffer
    /\ reser' = Serialize(cfg, par.val, junk2)
    /\ pc' = "reserialized"
    /\ UNCHANGED <<leafVars, cfg, proof, junk, junk2, ser, ser2, wire, par, size, air, cp,
                   cp2, evAll, evAt, again>>

\* the serialized proof loses its tail on the way to the parser: only the
\* first k bytes arrive
Truncate ==
    /\ pc = "serialized"
    /\ wire = ser.buffer
    /\ ser2 = None
    /\ Len(wire) <= MaxTruncated
    /\ \E k \in 0..(Len(wire) - 1) : wire' = SubSeq(wire, 1, k)
    /\ UNCHANGED <<leafVars, pc, cfg, proof, junk, junk2, ser, ser2, par, reser, size, air,
                   cp, cp2, evAll, evAt, again>>

\* byte strings of 1..MaxTrailing bytes
TrailingBytes ==
    UNION {[1..n -> JunkBytes] : n \in 1..MaxTrailing}

\* the serialized proof arrives with other bytes after it: parseProof is
\* handed b ++ e
AppendTrailing ==
    /\ pc = "serialized"
    /\ wire = ser.buffer
    /\ ser2 = None
    /\ Len(wire) <= MaxTruncated
    /\ \E e \in TrailingBytes : wire' = wire \o e
    /\ UNCHANGED <<leafVars, pc, cfg, proof, junk, junk2, ser, ser2, par, reser, size, air,
                   cp, cp2, evAll, evAt, again>>

\* size = sizeOf(proof, hashDigestSize)
InitSize ==
    /\ pc = "size_ready"
    /\ cfg \in {c \in ConfigsValuesFirst : c.stateWidth = 1 /\ c.fieldElementSize = 1}
    /\ proof \in ProofsSizeOf(cfg.hashDigestSize)
    /\ IdleSer /\ IdleComp /\ IdleLeaf
    /\ size = None

SizeOf ==
    /\ pc = "size_ready"
    /\ size' = sizeOf(proof, cfg.hashDigestSize)
    /\ pc' = IF size'.ok THEN "sized" ELSE "size_threw"
    /\ UNCHANGED <<leafVars, cfg, proof, junk, junk2, ser, ser2, wire, par, reser, air, cp,
                   cp2, evAll, evAt, again>>

InitComp ==
    /\ pc = "air_ready"
    /\ air \in Airs
    /\ cfg = [layout |-> "none"] /\ proof = None
    /\ IdleSer /\ IdleSize /\ IdleLeaf
    /\ cp = None /\ cp2 = None /\ evAll = None /\ evAt = None
    /\ again = NoCalls

\* the start of prove(assertions, ...): the assertions are validated, then
\* cp = new CompositionPolynomial(constraints, assertions, seed, context)
Construct ==
    /\ pc = "air_ready"
    /\ cp' = IF proveAccepts(air.assertions)
             THEN CompositionPolynomial(air.constraints, air.assertions,
                                        air.seed, air.context)
             ELSE InputError
    /\ pc' = IF cp'.ok THEN "constructed" ELSE "input_error"
    /\ UNCHANGED <<leafVars, cfg, proof, junk, junk2, ser, ser2, wire, par, reser, size, air,
                   cp2, evAll, evAt, again>>

\* a second instance from the same inputs, next to the first
ConstructAgain ==
    /\ pc = "constructed"
    /\ cp2 = None
    /\ cp2' = CompositionPolynomial(air.constraints, air.assertions, air.seed,
                                    air.context)
    /\ pc' = "constructed_again"
    /\ UNCHANGED <<leafVars, cfg, proof, junk, junk2, ser, ser2, wire, par, reser, size,
                   air, cp, evAll, evAt, again>>

\* the prover: cp.evaluateAll(pPolys, pEvaluations, context), on a context
\* whose evaluateTracePolynomials throws the first `failures` times
EvaluateAll ==
    /\ pc = "constructed"
    /\ \E failures \in 0..MaxTraceFailures :
          evAll' = tryEvaluateAll(cp, air.pPolys, air.pEvaluations, air.context,
                                 failures)
    /\ pc' = IF evAll'.ok THEN "evaluated" ELSE "evaluate_failed"
    /\ UNCHANGED <<leafVars, cfg, proof, junk, junk2, ser, ser2, wire, par, reser, size, air,
                   cp, cp2, evAt, again>>

\* P(x) at the i-th point x of the evaluation domain, and P(x * g)
pValuesAt(i) == [r \in 1..Len(air.pEvaluations) |-> air.pEvaluations[r][i]]

nValuesAt(i) ==
    pValuesAt(((i - 1 + air.context.extensionFactor)
               % Len(evaluationDomain(air.context))) + 1)

\* an evaluateAt that pushes the adjusted values onto this.dCoefficients
EvaluateAtLeaking ==
    /\ pc = "evaluated"
    /\ \E i \in 1..Len(evaluationDomain(air.context)) :
         LET x == evaluationDomain(air.context)[i]
         IN /\ evAt' = [ok |-> TRUE, position |-> i, x |-> x,
                        value |-> evaluateAt(cp, x, pValuesAt(i), nValuesAt(i),
                                             air.context)]
            /\ cp' = [cp EXCEPT !.dCoefficients =
                         @ \o adjustAt(cp, air.context,
                                       evaluateConstraintsAt(air.context, x,
                                                             pValuesAt(i),
                                                             nValuesAt(i)),
                                       x, Len(cp.constraintGroups))]
    /\ pc' = "queried"
    /\ UNCHANGED <<leafVars, cfg, proof, junk, junk2, ser, ser2, wire, par, reser, size, air,
                   cp2, evAll, again>>

\* the verifier: cp.evaluateAt(x, pValues, nValues, hValues, context) at the
\* i-th point x of the evaluation domain, with P(x) and P(x * g)
EvaluateAt ==
    /\ pc = "evaluated"
    /\ \E i \in 1..Len(evaluationDomain(air.context)) :
         LET n == Len(evaluationDomain(air.context))
             next == ((i - 1 + air.context.extensionFactor) % n) + 1
             x == evaluationDomain(air.context)[i]
             pValues == [r \in 1..Len(air.pEvaluations) |-> air.pEvaluations[r][i]]
             nValues == [r \in 1..Len(air.pEvaluations) |-> air.pEvaluations[r][next]]
         IN evAt' = [ok |-> TRUE, position |-> i, x |-> x,
                     value |-> evaluateAt(cp, x, pValues, nValues, air.context)]
    /\ pc' = "queried"
    /\ UNCHANGED <<leafVars, cfg, proof, junk, junk2, ser, ser2, wire, par, reser, size, air,
                   cp, cp2, evAll, again>>

\* evaluateAll called again on the same instance, after a query at one of the
\* first MaxRepeatPositions points
EvaluateAllAgain ==
    /\ pc = "queried"
    /\ evAt.position <= MaxRepeatPositions
    /\ \E failures \in 0..MaxTraceFailures :
          again' = [again EXCEPT !.all =
                      tryEvaluateAll(cp, air.pPolys, air.pEvaluations, air.context,
                                     failures)]
    /\ pc' = "reevaluated"
    /\ UNCHANGED <<leafVars, cfg, proof, junk, junk2, ser, ser2, wire, par, reser, size, air,
                   cp, cp2, evAll, evAt>>

\* evaluateAt called again with the arguments of the first query
EvaluateAtAgain ==
    /\ pc \in {"queried", "reevaluated"}
    /\ evAt.position <= MaxRepeatPositions
    /\ again' = [again EXCEPT !.at =
                   [ok |-> TRUE,
                    value |-> evaluateAt(cp, evAt.x, pValuesAt(evAt.position),
                                         nValuesAt(evAt.position), air.context)]]
    /\ pc' = "requeried"
    /\ UNCHANGED <<leafVars, cfg, proof, junk, junk2, ser, ser2, wire, par, reser, size, air,
                   cp, cp2, evAll, evAt>>

\* leaf = serializer.mergeValues([pValues, sValues], position)
InitLeaf ==
    /\ pc = "leaf_ready"
    /\ cfg \in {c \in ConfigsValuesFirst : c.hashDigestSize = 1}
    /\ trace \in Traces(cfg)
    /\ junk \in JunkBytes
    /\ junk2 = 255 - junk
    /\ proof = None
    /\ ser = None /\ ser2 = None /\ wire = <<>> /\ par = None /\ reser = None
    /\ IdleSize /\ IdleComp
    /\ leaf = None /\ leafValues = None

MergeValues ==
    /\ pc = "leaf_ready"
    /\ leaf' = mergeValues(cfg, trace.pValues, trace.sValues, trace.position, junk)
    /\ pc' = "merged"
    /\ UNCHANGED <<cfg, proof, junk, junk2, ser, ser2, wire, par, reser, size, air,
                   cp, cp2, evAll, evAt, again, trace, leafValues>>

\* [pValues, sValues] = serializer.parseValues(leaf)
ParseValues ==
    /\ pc = "merged"
    /\ leafValues' = parseValues(cfg, leaf)
    /\ pc' = "leaf_parsed"
    /\ UNCHANGED <<cfg, proof, junk, junk2, ser, ser2, wire, par, reser, size, air,
                   cp, cp2, evAll, evAt, again, trace, leaf>>

Init == InitSer \/ InitSize \/ InitComp \/ InitLeaf

Next ==
    \/ SerializeProof \/ SerializeAgain \/ Truncate \/ AppendTrailing
    \/ ParseProof \/ Reserialize
    \/ SizeOf
    \/ MergeValues \/ ParseValues
    \/ Construct \/ ConstructAgain \/ EvaluateAll \/ EvaluateAt
    \/ EvaluateAllAgain \/ EvaluateAtAgain

Spec == Init /\ [][Next]_vars

\* ------------------------------------------------------------------------
\* Properties
\* ------------------------------------------------------------------------
RootsFirst == cfg.layout = "rootsFirst"
ValuesFirst == cfg.layout = "valuesFirst"
Untruncated == ser.ok /\ wire = ser.buffer
Truncated == ser.ok /\ Len(wire) < Len(ser.buffer)

\* C1: round trip.  For every roots-first proof that serializeProof accepts,
\* parseProof of the serialized buffer succeeds and returns the same evRoot,
\* evProof, lcRoot, lcProof, FRI components, remainder and traceShape, and
\* serializing the parsed proof gives the same bytes.
C1_RoundTrip ==
    (RootsFirst /\ Untruncated) =>
        /\ pc # "parse_error"
        /\ pc \in {"parsed", "reserialized"} =>
              /\ par.ok
              /\ par.val.evRoot = proof.evRoot
              /\ par.val.evProof = proof.evProof
              /\ par.val.ldProof.lcRoot = proof.ldProof.lcRoot
              /\ par.val.ldProof.lcProof = proof.ldProof.lcProof
              /\ par.val.ldProof.components = proof.ldProof.components
              /\ par.val.ldProof.remainder = proof.ldProof.remainder
              /\ par.val.traceShape = proof.traceShape
        /\ pc = "reserialized" => reser.ok /\ reser.buffer = ser.buffer

C1_Witness ==
    /\ RootsFirst /\ pc = "reserialized"
    /\ Len(proof.ldProof.components) >= 1
    /\ Len(proof.evProof.nodes) >= 2
    /\ Len(proof.traceShape) >= 2
    /\ cfg.fieldElementSize # cfg.hashDigestSize

\* C2: the buffer that serializeProof returns has exactly the length that
\* sizeOf reports for the proof (either layout).
C2_LengthIsSizeOf ==
    (pc # "ready" /\ ser.ok) =>
        Len(ser.buffer) =
            IF ValuesFirst THEN sizeOf(proof, cfg.hashDigestSize).total
            ELSE sizeOfRootsFirst(proof, cfg.fieldElementSize,
                                  cfg.hashDigestSize).total

C2_Witness ==
    /\ ValuesFirst /\ ser.ok
    /\ Len(proof.ldProof.components) >= 1
    /\ Len(proof.values) >= 2
    /\ Len(ser.buffer) > 20

\* C7: remainder length encoding.  A remainder of 256 entries is written with
\* length byte 0, one of n in 1..255 entries with length byte n; the parser
\* turns length byte 0 into 256 entries, returns as many entries as were
\* written, and never returns an empty remainder.
LengthByteOffset ==
    Len(ser.buffer) - (1 + 4 * Len(proof.traceShape))
    - Len(proof.ldProof.remainder) * cfg.fieldElementSize - 1

C7_RemainderLength ==
    RootsFirst =>
        /\ (pc # "ready" /\ ser.ok) =>
              LET n == Len(proof.ldProof.remainder)
                  lengthByte == ser.buffer[LengthByteOffset + 1]
              IN /\ n \in 1..256
                 /\ n = 256 => lengthByte = 0
                 /\ n <= 255 => lengthByte = n
        /\ par.ok => Len(par.val.ldProof.remainder) >= 1
        /\ (Untruncated /\ pc \in {"parsed", "parse_error"}) =>
              /\ par.ok
              /\ Len(par.val.ldProof.remainder) = Len(proof.ldProof.remainder)

C7_Witness ==
    /\ RootsFirst /\ pc = "parsed"
    /\ Len(proof.ldProof.remainder) = 256
    /\ Len(par.val.ldProof.remainder) = 256
    /\ ser.buffer[LengthByteOffset + 1] = 0

\* C10: truncation.  parseProof of a strict prefix of a serialized proof fails
\* with an error; it never returns a proof object.
C10_TruncatedFails ==
    (Truncated /\ pc # "serialized") => (pc = "parse_error" /\ ~par.ok)

C10_Witness ==
    /\ RootsFirst /\ Truncated /\ pc = "parse_error"
    /\ Len(proof.traceShape) >= 2
    /\ Len(proof.ldProof.components) >= 1
    /\ Len(wire) = Len(ser.buffer) - 1

InTraceDomain(position) == (position - 1) % air.context.extensionFactor = 0

C5_Agreement ==
    (evAt.ok /\ ~InTraceDomain(evAt.position)) =>
        evAll.values[evAt.position] = evAt.value

C5_Witness ==
    /\ evAt.ok /\ ~InTraceDomain(evAt.position)
    /\ Len(cp.constraintGroups) >= 2
    /\ cp.compositionDegree > air.context.traceLength
    /\ bPolyCount(air.assertions) = 2
    /\ evAt.value # 0

\* C6: degrees.  combinationDegree is k1 * T with k1 the smallest power of 2
\* that is at least the highest constraint degree; compositionDegree is
\* max(combinationDegree - T, T), so it is at least T, and with only linear
\* constraints combinationDegree is T.
HighestDegree ==
    CHOOSE d \in {air.constraints[i].degree : i \in 1..Len(air.constraints)} :
        \A i \in 1..Len(air.constraints) : air.constraints[i].degree <= d

SmallestPowerOf2AtLeast(d) ==
    CHOOSE k \in 1..(2 * d) :
        /\ IsPowerOf2(k) /\ k >= d
        /\ \A j \in 1..(2 * d) : (IsPowerOf2(j) /\ j >= d) => k <= j

C6_Degrees ==
    cp.ok =>
        LET T == air.context.traceLength
        IN /\ cp.combinationDegree = SmallestPowerOf2AtLeast(HighestDegree) * T
           /\ cp.compositionDegree = Max(cp.combinationDegree - T, T)
           /\ cp.compositionDegree >= T
           /\ HighestDegree = 1 => cp.combinationDegree = T

C6_Witness ==
    /\ cp.ok /\ HighestDegree = 3
    /\ cp.combinationDegree = 4 * air.context.traceLength
    /\ cp.compositionDegree = 3 * air.context.traceLength

C6_WitnessLinear ==
    /\ cp.ok /\ HighestDegree = 1
    /\ cp.compositionDegree = air.context.traceLength

\* C8: matrix size limit.  After sizeOf ran, the matrix proof.evProof.nodes was
\* accepted by sizeOfMatrix if each of its columns has at most 127 entries, and
\* rejected if a column has more than 127 entries.
SizeOfRan == pc \in {"sized", "size_threw"}

ColumnsAtMost(matrix, n) == \A i \in 1..Len(matrix) : Len(matrix[i]) <= n

C8_ColumnLimit ==
    SizeOfRan =>
        /\ ColumnsAtMost(proof.evProof.nodes, MAX_MATRIX_COLUMN_LENGTH) =>
              sizeOfMatrix(proof.evProof.nodes).ok
        /\ ~ColumnsAtMost(proof.evProof.nodes, MAX_MATRIX_COLUMN_LENGTH) =>
              ~sizeOfMatrix(proof.evProof.nodes).ok /\ ~size.ok

\* C9: array size limit.  sizeOf throws if proof.values, the values of a FRI
\* column or poly Merkle proof, or the FRI remainder has more than 256
\* entries, and returns a size if each of them has 1..256 entries (and the
\* node matrices are within their limits).
ProofArrays ==
    <<proof.values, proof.ldProof.remainder>>
    \o [k \in 1..Len(proof.ldProof.components) |->
          proof.ldProof.components[k].columnProof.values]
    \o [k \in 1..Len(proof.ldProof.components) |->
          proof.ldProof.components[k].polyProof.values]

C9_ArrayLimit ==
    SizeOfRan =>
        /\ (\E a \in 1..Len(ProofArrays) : Len(ProofArrays[a]) > MAX_ARRAY_LENGTH)
              => ~size.ok
        /\ ( /\ \A a \in 1..Len(ProofArrays) :
                    Len(ProofArrays[a]) \in 1..MAX_ARRAY_LENGTH
             /\ sizeOfMatrix(proof.evProof.nodes).ok )
              => size.ok
\* C11: at least one assertion.  Proving with an empty assertions list ends in
\* an input error: no CompositionPolynomial is built, no coefficients are
\* drawn and nothing is evaluated.
Proving == pc \in {"constructed", "input_error", "evaluated", "queried"}

ValuesAt(values, position) == [r \in 1..Len(values) |-> values[r][position + 1]]

LeafInput == ValuesAt(trace.pValues, trace.position)
             \o ValuesAt(trace.sValues, trace.position)

BigEndian(bytes) ==
    SumSeq([i \in 1..Len(bytes) |-> bytes[i] * Pow(256, Len(bytes) - i)])

Merged == pc \in {"merged", "leaf_parsed"}

ValuesInRange ==
    \A k \in 1..Len(LeafInput) :
        LeafInput[k] \in 0..(Pow(256, cfg.fieldElementSize) - 1)

C12_LeafRoundTrip ==
    (Merged /\ ValuesInRange) =>
        /\ Len(leaf) = (cfg.stateWidth + cfg.secretInputCount) * cfg.fieldElementSize
        /\ \A k \in 1..Len(LeafInput) :
              BigEndian(SubSeq(leaf, (k - 1) * cfg.fieldElementSize + 1,
                               k * cfg.fieldElementSize)) = LeafInput[k]
        /\ pc = "leaf_parsed" =>
              /\ leafValues.ok
              /\ leafValues.val = <<ValuesAt(trace.pValues, trace.position),
                                    ValuesAt(trace.sValues, trace.position)>>

C12_Witness ==
    /\ pc = "leaf_parsed" /\ ValuesInRange
    /\ cfg.fieldElementSize = 2 /\ cfg.stateWidth = 2 /\ cfg.secretInputCount = 1
    /\ trace.position = 1
    /\ LeafInput[1] = Pow(256, cfg.fieldElementSize) - 1
    /\ LeafInput[2] < 256
    /\ leafValues.val[2] = <<LeafInput[3]>>
\* C13: wire-format order.  serializeProof writes, and parseProof reads, the
\* fields in one order and at the same offsets: evRoot, evProof, lcRoot,
\* lcProof, the 1-byte component count, per FRI component columnRoot,
\* columnProof, polyProof, then the 1-byte remainder length, the remainder
\* elements, the 1-byte trace-shape depth and depth 4-byte little-endian
\* counts.
MerkleProofSize(mp) ==
    (1 + SumLen(mp.values))
    + (1 + Len(mp.nodes) + SumSeq([i \in 1..Len(mp.nodes) |-> SumLen(mp.nodes[i])]))
    + 1

\* the sizes of the fields in the order above (the run of components is
\* entered as a field of size 0 in front of its first component)
FieldSizes ==
    <<cfg.hashDigestSize, MerkleProofSize(proof.evProof),
      cfg.hashDigestSize, MerkleProofSize(proof.ldProof.lcProof), 1, 0>>
    \o Flatten([k \in 1..Len(proof.ldProof.components) |->
                  <<cfg.hashDigestSize,
                    MerkleProofSize(proof.ldProof.components[k].columnProof),
                    MerkleProofSize(proof.ldProof.components[k].polyProof)>>])
    \o <<1, Len(proof.ldProof.remainder) * cfg.fieldElementSize,
          1, 4 * Len(proof.traceShape)>>

\* the offsets of the fields, and the offset after the last field
FieldEnds(sizes) == [k \in 0..Len(sizes) |-> SumSeq(SubSeq(sizes, 1, k))]

FieldBytes(sizes, ends, k) == SubSeq(ser.buffer, ends[k - 1] + 1, ends[k])

Serialized == pc = "serialized" /\ Untruncated

C13_WireOrder ==
    /\ (RootsFirst /\ Serialized) =>
          LET sizes == FieldSizes
              ends == FieldEnds(sizes)
              n == Len(sizes)
              components == proof.ldProof.components
          IN /\ ser.marks = [k \in 1..n |-> ends[k - 1]]
             /\ Len(ser.buffer) = ends[n]
             /\ FieldBytes(sizes, ends, 1) = proof.evRoot
             /\ FieldBytes(sizes, ends, 3) = proof.ldProof.lcRoot
             /\ FieldBytes(sizes, ends, 5) = <<Len(components)>>
             /\ \A k \in 1..Len(components) :
                   FieldBytes(sizes, ends, 3 * k + 4) = components[k].columnRoot
             /\ FieldBytes(sizes, ends, n - 3)
                   = <<Len(proof.ldProof.remainder) % 256>>
             /\ FieldBytes(sizes, ends, n - 1) = <<Len(proof.traceShape)>>
             /\ FieldBytes(sizes, ends, n) =
                   Flatten([i \in 1..Len(proof.traceShape) |->
                              <<proof.traceShape[i].lo % 256,
                                proof.traceShape[i].lo \div 256,
                                proof.traceShape[i].hi % 256,
                                proof.traceShape[i].hi \div 256>>])
    /\ (RootsFirst /\ Untruncated
          /\ pc \in {"parsed", "parse_error", "reserialized"}) =>
             /\ par.ok
             /\ par.offs = ser.marks

C13_Witness ==
    /\ RootsFirst /\ Untruncated /\ pc = "parsed"
    /\ Len(proof.ldProof.components) >= 1
    /\ Len(proof.traceShape) >= 2
    /\ cfg.sRegisterCount >= 1
    /\ cfg.fieldElementSize # cfg.hashDigestSize
    /\ Len(par.offs) = 13
\* C14: coefficient order.  The terms that evaluateAll and evaluateAt combine
\* with the alpha coefficients are, in order, the m transition constraints in
\* input order, then the adjusted copies: the degrees in the order of their
\* first appearance in the constraint list, the constraints of one degree in
\* ascending index (degrees equal to the combination degree have no adjusted
\* copies).  So alpha_k multiplies the same term in evaluateAll and in
\* evaluateAt.
Indexes == [i \in 1..Len(air.constraints) |-> i]

FirstOfItsDegree(i) ==
    \A j \in 1..(i - 1) : air.constraints[j].degree # air.constraints[i].degree

EffectiveDegree(i) == air.constraints[i].degree * air.context.traceLength

\* the constraints that have an adjusted copy, in the order of the copies
AdjustedOrder ==
    LET firsts == SelectSeq(Indexes, FirstOfItsDegree)
        members(f) ==
            SelectSeq(Indexes,
                      LAMBDA i : air.constraints[i].degree = air.constraints[f].degree)
    IN Flatten([k \in 1..Len(firsts) |->
                  IF EffectiveDegree(firsts[k]) < cp.combinationDegree
                  THEN members(firsts[k]) ELSE <<>>])

\* the constraint of the k-th term and the power of x it is multiplied by
TermOrder(adjusted) ==
    [i \in 1..Len(air.constraints) |-> [index |-> i, power |-> 0]]
    \o [k \in 1..Len(adjusted) |->
          [index |-> adjusted[k],
           power |-> cp.combinationDegree - EffectiveDegree(adjusted[k])]]

QueryP == [r \in 1..Len(air.pEvaluations) |-> air.pEvaluations[r][evAt.position]]

QueryN ==
    [r \in 1..Len(air.pEvaluations) |->
        air.pEvaluations[r][((evAt.position - 1 + air.context.extensionFactor)
                             % Len(air.pEvaluations[r])) + 1]]

C14_TermOrder ==
    LET m == air.context.field
    IN /\ pc = "evaluated" =>
            \A Q \in {evaluateTracePolynomials(air.context, air.pPolys)} :
            \A x \in {compositionDomain(air.context)} :
            \A qa \in {qaEvaluations(cp, air.pPolys, air.context)} :
            \A adjusted \in {AdjustedOrder} :
            \A terms \in {TermOrder(adjusted)} :
               /\ Len(qa) = Len(terms)
               /\ Len(qa) = Len(cp.dCoefficients)
               /\ \A k \in 1..Len(terms) :
                     qa[k] = [j \in 1..Len(x) |->
                                fmul(m, Q[terms[k].index][j],
                                     fexp(m, x[j], terms[k].power))]
       /\ pc = "queried" =>
            \A P \in {QueryP} :
            \A N \in {QueryN} :
            \A q \in {evaluateConstraintsAt(air.context, evAt.x, P, N)} :
            \A qv \in {qVector(cp, evAt.x, P, N, air.context)} :
            \A adjusted \in {AdjustedOrder} :
            \A terms \in {TermOrder(adjusted)} :
               /\ Len(qv) = Len(terms)
               /\ \A k \in 1..Len(terms) :
                     qv[k] = fmul(m, q[terms[k].index],
                                  fexp(m, evAt.x, terms[k].power))

C14_Witness ==
    /\ pc = "queried"
    /\ air.constraints = InterleavedConstraints
    /\ AdjustedOrder = <<1, 3, 2>>
    /\ LET qv == qVector(cp, evAt.x, QueryP, QueryN, air.context)
       IN Cardinality({qv[k] : k \in 1..Len(qv)}) = 6
\* C15: the number of alpha coefficients is m plus the number of constraints
\* whose effective degree d_i * T is strictly below the combination degree,
\* m being the number of transition constraints; it is m when every
\* constraint has the same degree and that degree is a power of 2.
BelowCombinationDegree ==
    {i \in 1..Len(air.constraints) : EffectiveDegree(i) < cp.combinationDegree}

AllOfDegree(d) == \A i \in 1..Len(air.constraints) : air.constraints[i].degree = d

C15_AlphaCount ==
    cp.ok =>
        /\ Len(cp.dCoefficients)
              = Len(air.constraints) + Cardinality(BelowCombinationDegree)
        /\ (\E d \in 1..MaxDegree : IsPowerOf2(d) /\ AllOfDegree(d)) =>
              Len(cp.dCoefficients) = Len(air.constraints)

C15_Witness ==
    /\ cp.ok /\ Len(air.constraints) = 3
    /\ Cardinality(BelowCombinationDegree) = 3
    /\ Len(cp.dCoefficients) = 6

C15_WitnessNoCopies ==
    /\ cp.ok /\ Len(air.constraints) = 2 /\ AllOfDegree(2)
    /\ Len(cp.dCoefficients) = 2
\* C16: the number of beta coefficients is the number of boundary polynomials
\* (one per register that has an assertion) when the composition degree is
\* T, and twice that number when the composition degree is above T.
AssertedRegisters ==
    {air.assertions[k].register : k \in 1..Len(air.assertions)}

C16_BetaCount ==
    cp.ok =>
        /\ cp.compositionDegree = air.context.traceLength =>
              Len(cp.bCoefficients) = Cardinality(AssertedRegisters)
        /\ cp.compositionDegree > air.context.traceLength =>
              Len(cp.bCoefficients) = 2 * Cardinality(AssertedRegisters)
        /\ cp.compositionDegree >= air.context.traceLength

C16_Witness ==
    /\ cp.ok /\ cp.compositionDegree > air.context.traceLength
    /\ Len(air.assertions) = 2
    /\ Cardinality(AssertedRegisters) = 2
    /\ Len(cp.bCoefficients) = 4

C16_WitnessSingle ==
    /\ cp.ok /\ cp.compositionDegree = air.context.traceLength
    /\ Len(air.assertions) = 2
    /\ Len(cp.bCoefficients) = 1
\* C17: one draw.  The alpha coefficients followed by the beta coefficients
\* are the first coefficientCount values of the generator's stream for the
\* seed: alpha the first dCoefficientCount of them, beta the
\* bCoefficientCount after those, and coefficientCount is the sum of the two
\* counts.
Stream(n) == prng(air.context.field, air.seed, n)

C17_OneDraw ==
    cp.ok =>
        LET dCount == dCoefficientCount(air.constraints, cp.constraintGroups,
                                        cp.combinationDegree)
            bCount == bCoefficientCount(bPolyCount(air.assertions),
                                        cp.compositionDegree,
                                        air.context.traceLength)
            stream == Stream(dCount + bCount)
        IN /\ coefficientCount(cp) = dCount + bCount
           /\ cp.dCoefficients = SubSeq(stream, 1, dCount)
           /\ cp.bCoefficients = SubSeq(stream, dCount + 1, dCount + bCount)

C17_Witness ==
    /\ cp.ok
    /\ Len(cp.dCoefficients) >= 3 /\ Len(cp.bCoefficients) = 4
    /\ cp.bCoefficients[1] # cp.dCoefficients[1]
    /\ cp.bCoefficients # SubSeq(cp.dCoefficients, 1, 4)
\* C18: transition degree adjustment.  With D the combination degree and
\* e = d_i * T: for every constraint i with e < D evaluateAll appends the
\* vector whose j-th entry is Q_i(x_j) * x_j^(D - e), x_j being the j-th
\* element of the composition domain, x_j = (rootOfUnity^(|D_E| / |D_C|))^j,
\* and evaluateAt appends Q_i(x) * x^(D - e); nothing is appended for the
\* constraints with e = D.
CompositionPoints ==
    LET m == air.context.field
        n == Len(compositionDomain(air.context))
        step == fexp(m, air.context.rootOfUnity,
                     Len(evaluationDomain(air.context)) \div n)
    IN [j \in 1..n |-> fexp(m, step, j - 1)]

Appended(terms) == SubSeq(terms, Len(air.constraints) + 1, Len(terms))

C18_TransitionAdjustment ==
    LET m == air.context.field
        D == cp.combinationDegree
    IN /\ pc = "evaluated" =>
            \A Q \in {evaluateTracePolynomials(air.context, air.pPolys)} :
            \A x \in {CompositionPoints} :
            \A appended \in {Appended(qaEvaluations(cp, air.pPolys, air.context))} :
            \A below \in {BelowCombinationDegree} :
               /\ x = compositionDomain(air.context)
               /\ Len(appended) = Cardinality(below)
               /\ \A i \in below :
                     \E k \in 1..Len(appended) :
                        appended[k] =
                            [j \in 1..Len(x) |->
                                fmul(m, Q[i][j],
                                     fexp(m, x[j], D - EffectiveDegree(i)))]
               /\ (\A i \in 1..Len(air.constraints) : EffectiveDegree(i) = D)
                     => appended = <<>>
       /\ pc = "queried" =>
            \A P \in {QueryP} :
            \A N \in {QueryN} :
            \A q \in {evaluateConstraintsAt(air.context, evAt.x, P, N)} :
            \A appended \in {Appended(qVector(cp, evAt.x, P, N,
                                              air.context))} :
            \A below \in {BelowCombinationDegree} :
               /\ Len(appended) = Cardinality(below)
               /\ \A i \in below :
                     \E k \in 1..Len(appended) :
                        appended[k] =
                            fmul(m, q[i], fexp(m, evAt.x, D - EffectiveDegree(i)))

C18_Witness ==
    /\ pc = "evaluated"
    /\ Len(air.constraints) = 2
    /\ Cardinality(BelowCombinationDegree) = 1
    /\ LET qa == qaEvaluations(cp, air.pPolys, air.context)
       IN /\ Len(qa) = 3
          /\ qa[3] # qa[1] /\ qa[3] # qa[2]
          /\ \E j \in 1..Len(qa[3]) : qa[3][j] # 0
\* C19: boundary degree adjustment.  If the composition degree is above T,
\* the terms that evaluateAll and evaluateAt combine with the beta
\* coefficients are the boundary polynomials B_r, one per asserted register,
\* followed by B_r(x) * x^(compositionDegree - T) for each of them (in
\* evaluateAll at every x of the evaluation domain); if the composition
\* degree is T they are the B_r alone.
C19_BoundaryAdjustment ==
    LET m == air.context.field
        count == Cardinality(AssertedRegisters)
        power == cp.compositionDegree - air.context.traceLength
    IN /\ pc = "evaluated" =>
            \A x \in {evaluationDomain(air.context)} :
            \A B \in {bPolyEvaluateAll(air.context, air.assertions,
                                       air.pEvaluations, x)} :
            \A ba \in {baEvaluations(cp, air.pEvaluations, air.context)} :
               /\ Len(B) = count
               /\ SubSeq(ba, 1, count) = B
               /\ IF cp.compositionDegree > air.context.traceLength
                  THEN /\ Len(ba) = 2 * count
                       /\ \A r \in 1..count :
                             ba[count + r] =
                                 [j \in 1..Len(x) |->
                                     fmul(m, B[r][j], fexp(m, x[j], power))]
                  ELSE /\ cp.compositionDegree = air.context.traceLength
                       /\ Len(ba) = count
       /\ pc = "queried" =>
            \A P \in {QueryP} :
            \A B \in {bPolyEvaluateAt(air.context, air.assertions, P, evAt.x)} :
            \A bv \in {bVector(cp, evAt.x, P, air.context)} :
               /\ SubSeq(bv, 1, count) = B
               /\ IF cp.compositionDegree > air.context.traceLength
                  THEN /\ Len(bv) = 2 * count
                       /\ \A r \in 1..count :
                             bv[count + r] =
                                 fmul(m, B[r], fexp(m, evAt.x, power))
                  ELSE Len(bv) = count

C19_Witness ==
    /\ pc = "queried" /\ ~InTraceDomain(evAt.position)
    /\ cp.compositionDegree = 3 * air.context.traceLength
    /\ LET bv == bVector(cp, evAt.x, QueryP, air.context)
       IN /\ Len(bv) = 4
          /\ Cardinality({bv[k] : k \in 1..4}) = 4

C19_WitnessUnadjusted ==
    /\ pc = "evaluated"
    /\ cp.compositionDegree = air.context.traceLength
    /\ Len(baEvaluations(cp, air.pEvaluations, air.context)) = 2
\* C20: division by Z.  With Z(x) = (x^T - 1) / (x - g^(T-1)): at every
\* position i of the evaluation domain evaluateAll computes
\* D[i] = QC[i] / Z(x_i), as QC[i] * (denominators[i] / numerators[i]), and
\* its result is D + BC pointwise; evaluateAt computes qcValue / Z(x) and
\* returns that plus the boundary value.  Where Z(x) is not 0, that is
\* outside the trace domain, D * Z = QC.
ZAt(x) ==
    fdiv(air.context.field, zPolyNumerator(air.context, x),
         zPolyDenominator(air.context, x))

C20_DivisionByZ ==
    LET m == air.context.field
    IN /\ pc = "evaluated" =>
            \A x \in {evaluationDomain(air.context)} :
            \A QC \in {qeEvaluations(cp, air.pPolys, air.context)} :
            \A D \in {dEvaluations(air.context, QC)} :
            \A BC \in {bcEvaluations(cp, air.pEvaluations, air.context)} :
            \A z \in {zPolyEvaluateAll(air.context, x)} :
            \A i \in 1..Len(x) :
            \A Z \in {ZAt(x[i])} :
                /\ z.numerators[i] = zPolyNumerator(air.context, x[i])
                /\ z.denominators[i] = zPolyDenominator(air.context, x[i])
                /\ D[i] = fdiv(m, QC[i], Z)
                /\ D[i] = fmul(m, QC[i],
                               fdiv(m, z.denominators[i], z.numerators[i]))
                /\ ~InTraceDomain(i) =>
                      /\ Z # 0
                      /\ fmul(m, D[i], Z) = QC[i]
                /\ evAll.values[i] = fadd(m, D[i], BC[i])
       /\ pc = "queried" =>
            \A P \in {QueryP} :
            \A N \in {QueryN} :
            \A qcValue \in {combineVectors(m, qVector(cp, evAt.x, P, N,
                                                      air.context),
                                            cp.dCoefficients)} :
            \A D \in {dValue(cp, evAt.x, P, N, air.context)} :
            \A Z \in {ZAt(evAt.x)} :
                /\ D = fdiv(m, qcValue, Z)
                /\ ~InTraceDomain(evAt.position) =>
                      /\ Z # 0
                      /\ fmul(m, D, Z) = qcValue
                /\ evAt.value = fadd(m, D, bValue(cp, evAt.x, P, air.context))

C20_Witness ==
    /\ pc = "queried" /\ ~InTraceDomain(evAt.position)
    /\ Len(air.constraints) >= 2
    /\ ZAt(evAt.x) \notin {0, 1}
    /\ dValue(cp, evAt.x, QueryP, QueryN, air.context) \notin {0, evAt.value}

\* C21: failure propagation in evaluateAll.  When the context's
\* evaluateTracePolynomials throws, evaluateAll throws a StarkError with the
\* message 'Failed to evaluate transition constraints' that carries the
\* error thrown as its cause; it has called evaluateTracePolynomials once,
\* has logged none of its steps and returns no values.
C21_FailurePropagation ==
    (pc \in {"evaluated", "evaluate_failed", "queried"} /\ evAll.failures >= 1) =>
        /\ pc = "evaluate_failed"
        /\ ~evAll.ok
        /\ evAll.name = "StarkError"
        /\ evAll.message = "Failed to evaluate transition constraints"
        /\ evAll.cause = TraceError
        /\ evAll.calls = 1
        /\ evAll.log = <<>>
        /\ "values" \notin DOMAIN evAll

C21_Witness ==
    /\ pc = "evaluate_failed"
    /\ evAll.failures = 1
    /\ cp.ok /\ Len(cp.dCoefficients) >= 2

\* C22: remainder element size.  The entries of the FRI remainder are field
\* elements of fieldElementSize bytes; for every field element size and hash
\* digest size, parseProof of the buffer that serializeProof returned for
\* such a proof succeeds and returns the same remainder.
RemainderOfFieldElements ==
    \/ RootsFirst
    \/ \A i \in 1..Len(proof.ldProof.remainder) :
          Len(proof.ldProof.remainder[i]) = cfg.fieldElementSize

C22_RemainderElementSize ==
    (Untruncated /\ pc \in {"parsed", "parse_error", "reserialized"}
       /\ RemainderOfFieldElements) =>
        /\ par.ok
        /\ par.val.ldProof.remainder = proof.ldProof.remainder

\* the leaves of a batch Merkle proof all have n bytes
LeavesOfSize(mp, n) == \A i \in 1..Len(mp.values) : Len(mp.values[i]) = n

\* the trace leaves and the composition / FRI leaves parseProof returned
TraceLeavesOfSize(p, n) ==
    IF RootsFirst THEN LeavesOfSize(p.evProof, n)
    ELSE \A i \in 1..Len(p.values) : Len(p.values[i]) = n

FriLeavesOfSize(p, n) ==
    /\ RootsFirst => LeavesOfSize(p.ldProof.lcProof, n)
    /\ \A k \in 1..Len(p.ldProof.components) :
          /\ LeavesOfSize(p.ldProof.components[k].columnProof, n)
          /\ LeavesOfSize(p.ldProof.components[k].polyProof, n)

\* number of mutable registers plus number of secret readonly registers
MutableAndSecretCount ==
    cfg.stateWidth + (IF RootsFirst THEN cfg.sRegisterCount ELSE cfg.secretInputCount)

\* C23: leaf sizes.  The trace leaves parseProof cuts out of a serialized
\* proof have (mutable registers + secret readonly registers) *
\* fieldElementSize bytes and the composition / FRI leaves have
\* 4 * fieldElementSize bytes, the sizes serializeProof wrote them with.
C23_LeafSizes ==
    (Untruncated /\ pc \in {"parsed", "reserialized"} /\ par.ok) =>
        /\ TraceLeavesOfSize(par.val, MutableAndSecretCount * cfg.fieldElementSize)
        /\ FriLeavesOfSize(par.val, 4 * cfg.fieldElementSize)

\* C24: term / coefficient count match.  The number of vectors evaluateAll
\* combines with dCoefficients and the number of values evaluateAt combines
\* with them both equal dCoefficients.length, and the number of boundary
\* terms of either equals bCoefficients.length.  No constraint group has a
\* degree above the combination degree, so the constructor's test
\* degree < combinationDegree and the evaluators' test
\* degree !== combinationDegree select the same groups.
SameGroupsSelected ==
    \A g \in 1..Len(cp.constraintGroups) :
       /\ cp.constraintGroups[g].degree <= cp.combinationDegree
       /\ (cp.constraintGroups[g].degree < cp.combinationDegree)
             <=> (cp.constraintGroups[g].degree # cp.combinationDegree)

C24_TermCounts ==
    /\ cp.ok => SameGroupsSelected
    /\ pc = "evaluated" =>
          /\ Len(qaEvaluations(cp, air.pPolys, air.context)) = Len(cp.dCoefficients)
          /\ Len(baEvaluations(cp, air.pEvaluations, air.context))
                = Len(cp.bCoefficients)
    /\ pc = "queried" =>
          \A P \in {QueryP} :
          \A N \in {QueryN} :
             /\ Len(qVector(cp, evAt.x, P, N, air.context)) = Len(cp.dCoefficients)
             /\ Len(bVector(cp, evAt.x, P, air.context)) = Len(cp.bCoefficients)

\* a group below the combination degree next to one at it
C24_Witness ==
    /\ pc = "queried"
    /\ \E g \in 1..Len(cp.constraintGroups) :
          cp.constraintGroups[g].degree < cp.combinationDegree
    /\ \E g \in 1..Len(cp.constraintGroups) :
          cp.constraintGroups[g].degree = cp.combinationDegree
    /\ Len(cp.dCoefficients) > Len(air.constraints)
    /\ Len(bVector(cp, evAt.x, QueryP, air.context)) = Len(cp.bCoefficients)

\* C25: adjusted degrees fit the composition domain.  An adjusted copy of a
\* constraint of degree d has degree d * (T - 1) + (D - d * T) = D - d, below
\* D = combinationDegree, and D is the size of the composition domain.  So
\* the linear combination QC is determined by its values on the composition
\* domain: at every point x of the evaluation domain the extended QC has the
\* value of the combination of the constraints' (adjusted) values at x.
\* (helpers: the trace polynomials' values at the i-th point of the
\* evaluation domain, and the position one step later)
TraceValuesAt(i) == [r \in 1..Len(air.pEvaluations) |-> air.pEvaluations[r][i]]

NextOf(i) ==
    ((i - 1 + air.context.extensionFactor) % Len(air.pEvaluations[1])) + 1

AdjustedDegree(i) ==
    air.constraints[i].degree * (air.context.traceLength - 1)
    + (cp.combinationDegree - EffectiveDegree(i))

C25_AdjustedDegreesFit ==
    /\ cp.ok =>
          \A domainSize \in {Len(compositionDomain(air.context))} :
             /\ cp.combinationDegree = domainSize
             /\ \A i \in 1..Len(air.constraints) :
                   /\ AdjustedDegree(i)
                         = cp.combinationDegree - air.constraints[i].degree
                   /\ AdjustedDegree(i) < domainSize
    /\ pc = "evaluated" =>
          \A QC \in {qeEvaluations(cp, air.pPolys, air.context)} :
          \A x \in {evaluationDomain(air.context)} :
          \A i \in 1..Len(x) :
             QC[i] = combineVectors(air.context.field,
                                    qVector(cp, x[i], TraceValuesAt(i),
                                            TraceValuesAt(NextOf(i)), air.context),
                                    cp.dCoefficients)

\* adjusted copies of two degrees, and a value of QC that is not 0 at a point
\* outside the composition domain
C25_Witness ==
    /\ pc = "evaluated"
    /\ Len(cp.constraintGroups) >= 2
    /\ \A g \in 1..Len(cp.constraintGroups) :
          cp.constraintGroups[g].degree < cp.combinationDegree
    /\ air.context.extensionFactor > air.context.compositionFactor
    /\ qeEvaluations(cp, air.pPolys, air.context)[2] # 0

\* C26: frame.  Once the CompositionPolynomial is constructed, no call of
\* evaluateAll or evaluateAt changes its combinationDegree, compositionDegree,
\* constraintGroups, dCoefficients or bCoefficients, and evaluateAt called
\* again with the arguments of an earlier call returns the value of that
\* call, whatever was called in between.
InstanceFields(this) ==
    <<this.combinationDegree, this.compositionDegree, this.constraintGroups,
      this.dCoefficients, this.bCoefficients>>

C27_EveryByteWritten ==
    (pc # "ready" /\ ser.ok) =>
        /\ ser.offset = Len(ser.buffer)
        /\ \A k \in 1..Len(ser.marks) :
              /\ ser.marks[k] <= Len(ser.buffer)
              /\ k > 1 => ser.marks[k - 1] <= ser.marks[k]

\* a proof with FRI components and a trace shape, serialized into memory
\* that held other bytes
C27_Witness ==
    /\ RootsFirst /\ pc = "serialized" /\ ser.ok
    /\ junk = 255
    /\ Len(proof.ldProof.components) >= 1
    /\ Len(proof.traceShape) >= 1
    /\ Len(ser.marks) >= 10
    /\ ser.offset = Len(ser.buffer)

\* C28: length prefixes never wrap (Serializer.js).  In a serialized proof
\* the byte in front of the FRI components is their number, the byte in front
\* of the remainder is the number of its entries (0 for 256 entries), the
\* byte in front of the trace shape is its depth, and every 4-byte count is
\* the count little-endian; parseProof returns as many components, remainder
\* entries and counts as the proof has, and the same counts.  A proof with
\* more than 255 components, a trace shape deeper than 255, or a count of
\* 2^32 or more is rejected by serializeProof.
PrefixFits ==
    /\ Len(proof.ldProof.components) <= 255
    /\ Len(proof.traceShape) <= 255
    /\ \A i \in 1..Len(proof.traceShape) : proof.traceShape[i].hi <= 65535

\* the byte serializeProof wrote at the k-th field offset after the components
ByteAtMark(k) == ser.buffer[ser.marks[3 * Len(proof.ldProof.components) + k] + 1]

CountBytes(i) ==
    SubSeq(ser.buffer,
           ser.marks[3 * Len(proof.ldProof.components) + 10] + 4 * (i - 1) + 1,
           ser.marks[3 * Len(proof.ldProof.components) + 10] + 4 * i)

C28_LengthPrefixes ==
    (RootsFirst /\ pc # "ready") =>
        /\ ~PrefixFits => (pc = "rejected" /\ ~ser.ok)
        /\ ser.ok =>
              /\ ser.buffer[ser.marks[5] + 1] = Len(proof.ldProof.components)
              /\ ByteAtMark(7) = remainderLength(Len(proof.ldProof.remainder))
              /\ ByteAtMark(7) # Len(proof.ldProof.remainder) =>
                    Len(proof.ldProof.remainder) = 256
              /\ ByteAtMark(9) = Len(proof.traceShape)
              /\ \A i \in 1..Len(proof.traceShape) :
                    CountBytes(i) = <<proof.traceShape[i].lo % 256,
                                      proof.traceShape[i].lo \div 256,
                                      proof.traceShape[i].hi % 256,
                                      proof.traceShape[i].hi \div 256>>
        /\ (Untruncated /\ pc \in {"parsed", "reserialized"}) =>
              /\ par.ok
              /\ Len(par.val.ldProof.components) = Len(proof.ldProof.components)
              /\ Len(par.val.ldProof.remainder) = Len(proof.ldProof.remainder)
              /\ Len(par.val.traceShape) = Len(proof.traceShape)
              /\ par.val.traceShape = proof.traceShape

\* a trace shape of 255 counts, the first of them 2^32 - 1, read back
C28_Witness ==
    /\ RootsFirst /\ pc = "parsed" /\ Untruncated
    /\ Len(proof.traceShape) = 255
    /\ Len(par.val.traceShape) = 255
    /\ par.val.traceShape[1] = U32(65535, 65535)
    /\ ByteAtMark(9) = 255

\* the proofs that do not fit are reached: 256 components, depth 256, 2^32
C28_WitnessRejected ==
    /\ RootsFirst /\ pc = "rejected"
    /\ Len(proof.ldProof.components) = 256

\* C29: trailing bytes.  For a serialized proof b and any bytes e after it,
\* parseProof(b ++ e) returns the proof that parseProof(b) returns: the bytes
\* after the proof are not read (either layout).
Extended == ser.ok /\ Len(wire) > Len(ser.buffer)

C29_TrailingBytes ==
    (Extended /\ pc \in {"parsed", "parse_error"}) =>
        \E p \in {Parse(cfg, ser.buffer, junk2)} :
           /\ p.ok /\ par.ok
           /\ par.val = p.val

\* C30: the constraint groups are a partition.  Every constraint index
\* 0..m-1 is in exactly one group; the constraints of a group all have
\* degree * traceLength equal to the group's degree; no two groups have the
\* same degree; inside a group the indexes ascend; and the groups are in the
\* order of their first indexes.
GroupsOf(i) ==
    {<<g, k>> \in (1..Len(cp.constraintGroups)) \X (1..Len(air.constraints)) :
        /\ k <= Len(cp.constraintGroups[g].indexes)
        /\ cp.constraintGroups[g].indexes[k] = i}

C30_GroupsPartition ==
    cp.ok =>
        \A groups \in {cp.constraintGroups} :
           /\ \A i \in 0..(Len(air.constraints) - 1) : Cardinality(GroupsOf(i)) = 1
           /\ \A g \in 1..Len(groups) :
                 /\ Len(groups[g].indexes) >= 1
                 /\ \A k \in 1..Len(groups[g].indexes) :
                       /\ groups[g].indexes[k] \in 0..(Len(air.constraints) - 1)
                       /\ air.constraints[groups[g].indexes[k] + 1].degree
                             * air.context.traceLength = groups[g].degree
                       /\ k > 1 => groups[g].indexes[k - 1] < groups[g].indexes[k]
                 /\ \A h \in 1..Len(groups) :
                       /\ h # g => groups[h].degree # groups[g].degree
                       /\ h < g => groups[h].indexes[1] < groups[g].indexes[1]

\* degrees 3, 1, 3: the group of degree 3 T holds indexes 0 and 2 and comes
\* before the group of degree T
C30_Witness ==
    /\ cp.ok
    /\ air.constraints = InterleavedConstraints
    /\ Len(cp.constraintGroups) = 2
    /\ cp.constraintGroups[1].indexes = <<0, 2>>
    /\ cp.constraintGroups[2].indexes = <<1>>
    /\ cp.constraintGroups[1].degree > cp.constraintGroups[2].degree

====
